---- MODULE Spec2Model ----
(***************************************************************************)
(* A model of the pandoc wrapper (src/src/lib.rs): the builder `Pandoc`,   *)
(* the rendering of its options and formats to command-line tokens, and    *)
(* the execution engine (preprocess / run / execute) with the child        *)
(* process and the operating system as nondeterministic environment.       *)
(*                                                                         *)
(* Conventions.  A Rust `String` or `Vec<u8>` that carries document text   *)
(* is a sequence of bytes (0..255); command-line tokens and paths are TLA+ *)
(* strings, joined with \o.  `Option<T>` is None or a record of kind       *)
(* "Some"/"Files"/"Pipe"/...; an optional string payload of an option is   *)
(* the empty sequence (None) or a one-element sequence (Some).  Paths are  *)
(* valid Unicode and the PATH variable is set (run panics otherwise, at    *)
(* lines 1090 and 1093, before anything else happens).                     *)
(***************************************************************************)
EXTENDS Integers, Sequences, FiniteSets, TLC

None == [kind |-> "None"]

----------------------------------------------------------------------------
(* Bounds of the model.                                                    *)

MaxFiles == 2
MaxFilters == 2
MaxOptions == 2
MaxExtensions == 2
MaxArgs == 1
MaxHints == 2
MaxOut == 2

----------------------------------------------------------------------------
(* Platform constants (the not(windows) build).                            *)

LATEX_PATH == <<"/usr/local/bin", "/usr/local/texlive/2015/bin/i386-linux">>

PATH_DELIMIT == ":"

os_specific_paths == <<>>

(* The value of the inherited PATH environment variable.                   *)
EnvPATH == "/usr/bin:/bin"

----------------------------------------------------------------------------
(* Display implementations of the enumerations.                            *)

TrackChangesNames ==
    [ Accept |-> "accept", Reject |-> "reject", All |-> "all" ]

EmailObfuscationNames ==
    [ None |-> "none", Javascript |-> "javascript", References |-> "references" ]

DocumentClassNames ==
    [ Article |-> "article", Report |-> "report", Book |-> "book" ]

OutputFormatNames ==
    [ Native |-> "native", Json |-> "json", Plain |-> "plain",
      Markdown |-> "markdown", MarkdownStrict |-> "markdown_strict", MarkdownPhpextra |-> "markdown_phpextra",
      MarkdownGithub |-> "markdown_github", Commonmark |-> "commonmark", CommonmarkX |-> "commonmark_x",
      Rst |-> "rst", Html |-> "html", Html5 |-> "html5",
      Latex |-> "latex", Beamer |-> "beamer", Context |-> "context",
      Pdf |-> "pdf", Man |-> "man", MediaWiki |-> "mediawiki",
      Dokuwiki |-> "dokuwiki", Textile |-> "textile", Org |-> "org",
      Texinfo |-> "texinfo", Opml |-> "opml", Docbook |-> "docbook",
      OpenDocument |-> "open_document", Odt |-> "odt", Docx |-> "docx",
      Haddock |-> "haddock", Rtf |-> "rtf", Epub |-> "epub",
      Epub3 |-> "epub3", Fb2 |-> "fb2", Asciidoc |-> "asciidoc",
      Icml |-> "icml", Slidy |-> "slidy", Slideous |-> "slideous",
      Dzslides |-> "dzslides", Revealjs |-> "revealjs", S5 |-> "s5" ]

InputFormatNames ==
    [ Native |-> "native", Json |-> "json", Markdown |-> "markdown",
      MarkdownStrict |-> "markdown_strict", MarkdownPhpextra |-> "markdown_phpextra", MarkdownGithub |-> "markdown_github",
      Commonmark |-> "commonmark", CommonmarkX |-> "commonmark_x", Rst |-> "rst",
      Rtf |-> "rtf", Html |-> "html", Latex |-> "latex",
      MediaWiki |-> "mediawiki", Textile |-> "textile", Org |-> "org",
      Opml |-> "opml", Docx |-> "docx", Haddock |-> "haddock",
      Epub |-> "epub", DocBook |-> "docbook", T2t |-> "t2t",
      Twiki |-> "twiki" ]

MarkdownExtensionNames ==
    [ Smart |-> "smart", Attributes |-> "attributes",
      EscapedLineBreaks |-> "escaped_line_breaks", BlankBeforeHeader |-> "blank_before_header",
      HeaderAttributes |-> "header_attributes", AutoIdentifiers |-> "auto_identifiers",
      ImplicitHeaderReferences |-> "implicit_header_references", BlankBeforeBlockQuote |-> "blank_before_block_quote",
      FencedDivs |-> "fenced_divs", FencedCodeBlocks |-> "fenced_code_blocks",
      BacktickCodeBlocks |-> "backtick_code_blocks", FencedCodeAttributes |-> "fenced_code_attributes",
      LineBlocks |-> "line_blocks", FancyLists |-> "fancy_lists",
      Startnum |-> "startnum", TaskLists |-> "task_lists",
      DefinitionLists |-> "definition_lists", ExampleLists |-> "example_lists",
      TableCaptions |-> "table_captions", SimpleTables |-> "simple_tables",
      MultilineTables |-> "multiline_tables", GridTables |-> "grid_tables",
      PipeTables |-> "pipe_tables", PandocTitleBlock |-> "pandoc_title_block",
      YamlMetadataBlock |-> "yaml_metadata_block", AllSymbolsEscapable |-> "all_symbols_escapable",
      IntrawordUnderscores |-> "intraword_underscores", Strikeout |-> "strikeout",
      Superscript |-> "superscript", Subscript |-> "subscript",
      InlineCodeAttributes |-> "inline_code_attributes", TexMathDollars |-> "tex_math_dollars",
      RawAttribute |-> "raw_attribute", RawHtml |-> "raw_html",
      MarkdownInHtmlBlocks |-> "markdown_in_html_blocks", NativeDivs |-> "native_divs",
      NativeSpans |-> "native_spans", BracketedSpans |-> "bracketed_spans",
      RawTex |-> "raw_tex", LatexMacros |-> "latex_macros",
      ShortcutReferenceLinks |-> "shortcut_reference_links", ImplicitFigures |-> "implicit_figures",
      Footnotes |-> "footnotes", InlineNotes |-> "inline_notes",
      Citations |-> "citations", ListsWithoutPrecedingBlankline |-> "lists_without_preceding_blankline",
      HardLineBreaks |-> "hard_line_breaks", IgnoreLineBreaks |-> "ignore_line_breaks",
      TexMathSingleBackslash |-> "tex_math_single_backslash", TexMathDoubleBackslash |-> "tex_math_double_backslash",
      MarkdownAttribute |-> "markdown_attribute", MmdTitleBlock |-> "Mmd_title_block",
      Abbreviations |-> "abbreviations", AutolinkBareUris |-> "autolink_bare_uris",
      AsciiIdentifiers |-> "ascii_identifiers", LinkAttributes |-> "link_attributes",
      MmdHeaderIdentifiers |-> "mmd_header_identifiers", CompactDefinitionLists |-> "compact_definition_lists",
      RebaseRelativePaths |-> "rebase_relative_paths" ]

(* Tables of PandocOption::apply, by the shape of the variant's payload.    *)

FlagTokens ==
    [ Strict |-> "--strict", ParseRaw |-> "--parse-raw",
      Smart |-> "--smart", OldDashes |-> "--old-dashes",
      Normalize |-> "--normalize", PreserveTabs |-> "--preserve-tabs",
      Standalone |-> "--standalone", NoWrap |-> "--wrap=none",
      TableOfContents |-> "--table-of-contents", NoHighlight |-> "--no-highlight",
      SelfContained |-> "--self-contained", Offline |-> "--offline",
      Html5 |-> "--html5", HtmlQTags |-> "--html-q-tags",
      Ascii |-> "--ascii", ReferenceLinks |-> "--reference-links",
      AtxHeaders |-> "--markdown-headings=atx", NumberSections |-> "--number-sections",
      NoTexLigatures |-> "--no-tex-ligatures", Listings |-> "--listings",
      Incremental |-> "--incremental", SectionDivs |-> "--section-divs",
      Citeproc |-> "--citeproc", Natbib |-> "--natbib",
      Biblatex |-> "--biblatex", GladTex |-> "--gladtex",
      Trace |-> "--trace", DumpArgs |-> "--dump-args",
      IgnoreArgs |-> "--ignore-args", Verbose |-> "--verbose",
      Sandbox |-> "--sandbox" ]

PathPrefix ==
    [ DataDir |-> "--data-dir=", Defaults |-> "--defaults=",
      Filter |-> "--filter=", LuaFilter |-> "--lua-filter=",
      ExtractMedia |-> "--extract-media=", Template |-> "--template=",
      PrintDefaultDataFile |-> "--print-default-data-file=", IncludeInHeader |-> "--include-in-header=",
      IncludeBeforeBody |-> "--include-before-body=", IncludeAfterBody |-> "--include-after-body=",
      ReferenceOdt |-> "--reference-odt=", ReferenceDocx |-> "--reference-docx=",
      ReferenceDoc |-> "--reference-doc=", EpubStylesheet |-> "--epub-stylesheet=",
      EpubCoverImage |-> "--epub-cover-image=", EpubMetadata |-> "--epub-metadata=",
      EpubEmbedFont |-> "--epub-embed-font=", PdfEngine |-> "--pdf-engine=",
      Bibliography |-> "--bibliography=", Csl |-> "--csl=",
      CitationAbbreviations |-> "--citation-abbreviations=" ]

StringPrefix ==
    [ IndentedCodeClasses |-> "--indented-code-classes=", PrintDefaultTemplate |-> "--print-default-template=",
      HighlightStyle |-> "--highlight-style=", DefaultImageExtension |-> "--default-image-extension=",
      IdPrefix |-> "--id-prefix=", TitlePrefix |-> "--title-prefix=",
      Css |-> "--css=", PdfEngineOpt |-> "--pdf-engine-opt=",
      KatexStylesheet |-> "--katex-stylesheet=", EOL |-> "--eol=" ]

(* A variant that renders the renamed option with its current flag.        *)
NumberPrefix_CurrentSpelling ==
    [ BaseHeaderLevel |-> "--shift-heading-level-by=",
      ShiftHeadingLevelBy |-> "--shift-heading-level-by=",
      TabStop |-> "--tab-stop=", Columns |-> "--columns=",
      TableOfContentsDepth |-> "--toc-depth=", SlideLevel |-> "--slide-level=",
      EpubChapterLevel |-> "--epub-chapter-level=" ]

NumberPrefix ==
    [ BaseHeaderLevel |-> "--base-header-level=", ShiftHeadingLevelBy |-> "--shift-heading-level-by=",
      TabStop |-> "--tab-stop=", Columns |-> "--columns=",
      TableOfContentsDepth |-> "--toc-depth=", SlideLevel |-> "--slide-level=",
      EpubChapterLevel |-> "--epub-chapter-level=" ]

UrlPrefix ==
    [ LatexMathML |-> "--latexmathml=", AsciiMathML |-> "--asciimathml=",
      MathML |-> "--mathml=", MimeTex |-> "--mimetex=",
      WebTex |-> "--webtex=", JsMath |-> "--jsmath=",
      MathJax |-> "--mathjax=", Katex |-> "--katex=" ]

UrlFlag ==
    [ LatexMathML |-> "--latexmathml", AsciiMathML |-> "--asciimathml",
      MathML |-> "--mathml", MimeTex |-> "--mimetex",
      WebTex |-> "--webtex", JsMath |-> "--jsmath",
      MathJax |-> "--mathjax", Katex |-> "--katex" ]

TldTokens ==
    [ Chapter |-> "--top-level-division=chapter",
      Section |-> "--top-level-division=section",
      Part |-> "--top-level-division=part" ]

----------------------------------------------------------------------------
(* Values.  A format or extension is [tag |-> variant] or, for the escape  *)
(* hatches, [tag |-> "Other", s |-> text] / [tag |-> "Lua", s |-> path].   *)

Fmt(tag) == [tag |-> tag]

FmtOther(s) == [tag |-> "Other", s |-> s]

FmtLua(s) == [tag |-> "Lua", s |-> s]

SomeFormat(format, extensions) ==
    [kind |-> "Some", format |-> format, extensions |-> extensions]

Files(files) == [kind |-> "Files", files |-> files]

Pipe(text) == [kind |-> "Pipe", text |-> text]

OutFile(path) == [kind |-> "File", path |-> path]

OutPipe == [kind |-> "Pipe"]

(* PandocOption values, by payload shape.                                  *)
Flag(tag) == [tag |-> tag]

WithPath(tag, p) == [tag |-> tag, s |-> p]

WithString(tag, s) == [tag |-> tag, s |-> s]

WithNumber(tag, n) == [tag |-> tag, n |-> n]

WithUrl(tag, url) == [tag |-> tag, url |-> url]

WithChoice(tag, v) == [tag |-> tag, v |-> v]

KeyValue(tag, k, v) == [tag |-> tag, k |-> k, v |-> v]

TopLevelDivision(tld) == [tag |-> "TopLevelDivision", tld |-> tld]

NumberOffset(nums) == [tag |-> "NumberOffset", nums |-> nums]

ResourcePath(paths) == [tag |-> "ResourcePath", paths |-> paths]

RuntimeSystem(rts) == [tag |-> "RuntimeSystem", rts |-> rts]

MaximumHeapMemory(s) == [tag |-> "MaximumHeapMemory", s |-> s]

----------------------------------------------------------------------------
(* Display of formats and extensions.  A rendering either yields a string  *)
(* or panics (OutputFormat::Lua is unimplemented!()).                      *)

Rendered(s) == [ok |-> TRUE, s |-> s]

Panic == [ok |-> FALSE]

MarkdownExtensionDisplay(e) ==
    IF e.tag = "Other" THEN e.s ELSE MarkdownExtensionNames[e.tag]

InputFormatDisplay(f) ==
    IF f.tag = "Other" THEN f.s ELSE InputFormatNames[f.tag]

OutputFormatDisplay(f) ==
    IF f.tag = "Lua" THEN Panic
    ELSE IF f.tag = "Other" THEN Rendered(f.s)
    ELSE Rendered(OutputFormatNames[f.tag])

DocumentClassDisplay(c) == DocumentClassNames[c]

(* The loop `for extension in extensions { write!(arg, "+{}", extension) }` *)
RECURSIVE WithExtensions(_, _)
WithExtensions(s, extensions) ==
    IF extensions = <<>> THEN s
    ELSE WithExtensions(s \o "+" \o MarkdownExtensionDisplay(Head(extensions)),
                        Tail(extensions))

----------------------------------------------------------------------------
(* PandocOption::apply: the tokens one option appends to the command.      *)

(* A variant that writes the delimiter after every number.                 *)
NumberOffsetStep_TrailingDelimiter(b, n) == b \o ToString(n) \o ", "

NumberOffsetStep(b, n) ==
    IF b = "" THEN ToString(n) ELSE b \o ", " \o ToString(n)

RECURSIVE NumberOffsetFold(_, _)
NumberOffsetFold(b, nums) ==
    IF nums = <<>> THEN b
    ELSE NumberOffsetFold(NumberOffsetStep(b, Head(nums)), Tail(nums))

RECURSIVE Join(_, _)
Join(strs, delimiter) ==
    IF strs = <<>> THEN ""
    ELSE IF Len(strs) = 1 THEN Head(strs)
    ELSE Head(strs) \o delimiter \o Join(Tail(strs), delimiter)

(* A variant that renders the first runtime-system option alone.           *)
RtsTokens_FirstOnly(rts) ==
    IF rts = <<>> THEN <<>> ELSE <<"-M" \o Head(rts).s>>

RECURSIVE RtsTokens(_)
RtsTokens(rts) ==
    IF rts = <<>> THEN <<>>
    ELSE <<"-M" \o Head(rts).s>> \o RtsTokens(Tail(rts))

KeyValueToken(k, v) ==
    IF v = <<>> THEN k ELSE k \o ":" \o v[1]

apply(opt) ==
    LET tag == opt.tag
    IN  IF tag \in DOMAIN FlagTokens THEN <<FlagTokens[tag]>>
        ELSE IF tag \in DOMAIN PathPrefix THEN <<PathPrefix[tag] \o opt.s>>
        ELSE IF tag \in DOMAIN StringPrefix THEN <<StringPrefix[tag] \o opt.s>>
        ELSE IF tag \in DOMAIN NumberPrefix
             THEN <<NumberPrefix[tag] \o ToString(opt.n)>>
        ELSE IF tag \in DOMAIN UrlPrefix
             THEN IF opt.url = <<>> THEN <<UrlFlag[tag]>>
                  ELSE <<UrlPrefix[tag] \o opt.url[1]>>
        ELSE IF tag = "TrackChanges"
             THEN <<"--track-changes=" \o TrackChangesNames[opt.v]>>
        ELSE IF tag = "EmailObfuscation"
             THEN <<"--email-obfuscation=" \o EmailObfuscationNames[opt.v]>>
        ELSE IF tag = "Meta" THEN <<"-M", KeyValueToken(opt.k, opt.v)>>
        ELSE IF tag = "Var" THEN <<"-V", KeyValueToken(opt.k, opt.v)>>
        ELSE IF tag = "TopLevelDivision" THEN <<TldTokens[opt.tld]>>
        ELSE IF tag = "NumberOffset"
             THEN <<"--number-offset=" \o NumberOffsetFold("", opt.nums)>>
        ELSE IF tag = "ResourcePath"
             THEN <<"--resource-path=" \o Join(opt.paths, ":")>>
        ELSE (* RuntimeSystem *)
             <<"+RTS">> \o RtsTokens(opt.rts) \o <<"-RTS">>

----------------------------------------------------------------------------
(* UTF-8, as String::from_utf8, Utf8Error::valid_up_to and                 *)
(* String::from_utf8_lossy treat a byte sequence.                          *)

IsContinuation(b) == b >= 128 /\ b <= 191

(* The sequence starting at b[i]: [ok, len], a well-formed scalar of len   *)
(* bytes, or the len bytes of a maximal ill-formed (or truncated) part.    *)
Utf8Step(b, i) ==
    LET c == b[i]
        at(j) == IF j <= Len(b) THEN b[j] ELSE -1
    IN  IF c < 128 THEN [ok |-> TRUE, len |-> 1]
        ELSE IF c >= 194 /\ c <= 223
             THEN IF IsContinuation(at(i + 1)) THEN [ok |-> TRUE, len |-> 2]
                  ELSE [ok |-> FALSE, len |-> 1]
        ELSE IF c >= 224 /\ c <= 239
             THEN LET lo == IF c = 224 THEN 160 ELSE 128
                      hi == IF c = 237 THEN 159 ELSE 191
                  IN  IF ~(at(i + 1) >= lo /\ at(i + 1) <= hi)
                      THEN [ok |-> FALSE, len |-> 1]
                      ELSE IF ~IsContinuation(at(i + 2))
                      THEN [ok |-> FALSE, len |-> 2]
                      ELSE [ok |-> TRUE, len |-> 3]
        ELSE IF c >= 240 /\ c <= 244
             THEN LET lo == IF c = 240 THEN 144 ELSE 128
                      hi == IF c = 244 THEN 143 ELSE 191
                  IN  IF ~(at(i + 1) >= lo /\ at(i + 1) <= hi)
                      THEN [ok |-> FALSE, len |-> 1]
                      ELSE IF ~IsContinuation(at(i + 2))
                      THEN [ok |-> FALSE, len |-> 2]
                      ELSE IF ~IsContinuation(at(i + 3))
                      THEN [ok |-> FALSE, len |-> 3]
                      ELSE [ok |-> TRUE, len |-> 4]
        ELSE [ok |-> FALSE, len |-> 1]

RECURSIVE ValidFrom(_, _)
ValidFrom(b, i) ==
    IF i > Len(b) THEN Len(b)
    ELSE LET step == Utf8Step(b, i)
         IN  IF step.ok THEN ValidFrom(b, i + step.len) ELSE i - 1

valid_up_to(b) == ValidFrom(b, 1)

(* String::from_utf8: the same bytes as a String, or the Utf8Error.        *)
from_utf8(b) ==
    IF valid_up_to(b) = Len(b) THEN [ok |-> TRUE, string |-> b]
    ELSE [ok |-> FALSE, valid_up_to |-> valid_up_to(b)]

(* The scalar value of the well-formed sequence of len bytes at b[i].      *)
Scalar(b, i, len) ==
    IF len = 1 THEN b[i]
    ELSE IF len = 2 THEN (b[i] - 192) * 64 + (b[i + 1] - 128)
    ELSE IF len = 3
         THEN (b[i] - 224) * 4096 + (b[i + 1] - 128) * 64 + (b[i + 2] - 128)
    ELSE (b[i] - 240) * 262144 + (b[i + 1] - 128) * 4096
         + (b[i + 2] - 128) * 64 + (b[i + 3] - 128)

REPLACEMENT_CHARACTER == 65533

(* String::from_utf8_lossy, as the sequence of chars of the result.        *)
RECURSIVE LossyFrom(_, _)
LossyFrom(b, i) ==
    IF i > Len(b) THEN <<>>
    ELSE LET step == Utf8Step(b, i)
         IN  <<IF step.ok THEN Scalar(b, i, step.len)
               ELSE REPLACEMENT_CHARACTER>> \o LossyFrom(b, i + step.len)

from_utf8_lossy(b) == LossyFrom(b, 1)

----------------------------------------------------------------------------
(* PandocError and its rendering.  A rendering is a sequence of chars.     *)

ErrKind(kind) == [kind |-> kind]

BadUtf8Conversion(n) == [kind |-> "BadUtf8Conversion", n |-> n]

IoErr(e) == [kind |-> "IoErr", io |-> e]

ErrOutput(output) == [kind |-> "Err", output |-> output]

Ok(v) == [tag |-> "Ok", val |-> v]

Err(e) == [tag |-> "Err", err |-> e]

(* A variant that wraps every I/O error, a missing executable included.    *)
FromIoError_Wrapping(kind) == IoErr(kind)

(* impl From<std::io::Error> for PandocError                               *)
FromIoError(kind) ==
    IF kind = "NotFound" THEN ErrKind("PandocNotFound") ELSE IoErr(kind)

(* impl From<std::str::Utf8Error> for PandocError                          *)
FromUtf8Error(e) == BadUtf8Conversion(e.valid_up_to)

RECURSIVE Digits(_)
Digits(n) ==
    IF n < 10 THEN <<48 + n>> ELSE Digits(n \div 10) \o <<48 + (n % 10)>>

(* "{}" / "{:?}" of an integer.                                            *)
IntChars(n) == IF n < 0 THEN <<45>> \o Digits(-n) ELSE Digits(n)

(* "{:?}" of status.code(): Option<i32>, <<>> for None.                    *)
OptionIntDebug(code) ==
    IF code = <<>> THEN <<78, 111, 110, 101>>
    ELSE <<83, 111, 109, 101, 40>> \o IntChars(code[1]) \o <<41>>

(* "{:?}" of a std::io::Error of the given kind: Kind(<kind>).             *)
IoErrorDebug(kind) ==
    <<75, 105, 110, 100, 40>> \o
    (IF kind = "NotFound" THEN <<78, 111, 116, 70, 111, 117, 110, 100>>
     ELSE IF kind = "PermissionDenied" THEN <<80, 101, 114, 109, 105, 115, 115, 105, 111, 110, 68, 101, 110, 105, 101, 100>>
     ELSE IF kind = "BrokenPipe" THEN <<66, 114, 111, 107, 101, 110, 80, 105, 112, 101>>
     ELSE <<79, 116, 104, 101, 114>>) \o <<41>>

(* impl Debug for PandocError                                              *)
PandocErrorDebug(e) ==
    IF e.kind = "IoErr" THEN IoErrorDebug(e.io)
    ELSE IF e.kind = "Err"
         THEN (* "exit_code: " *)
              <<101, 120, 105, 116, 95, 99, 111, 100, 101, 58, 32>>
              \o OptionIntDebug(e.output.status)
              (* "stdout: " *)
              \o <<115, 116, 100, 111, 117, 116, 58, 32>>
              \o from_utf8_lossy(e.output.stdout)
              (* "stderr: " *)
              \o <<115, 116, 100, 101, 114, 114, 58, 32>>
              \o from_utf8_lossy(e.output.stderr)
    ELSE IF e.kind = "NoOutputSpecified"
         THEN (* "No output file was specified" *)
              <<78, 111, 32, 111, 117, 116, 112, 117, 116, 32, 102, 105, 108, 101, 32, 119, 97, 115, 32, 115, 112, 101, 99, 105, 102, 105, 101, 100>>
    ELSE IF e.kind = "NoInputSpecified"
         THEN (* "No input files were specified" *)
              <<78, 111, 32, 105, 110, 112, 117, 116, 32, 102, 105, 108, 101, 115, 32, 119, 101, 114, 101, 32, 115, 112, 101, 99, 105, 102, 105, 101, 100>>
    ELSE IF e.kind = "PandocNotFound"
         THEN (* "Pandoc not found, did you forget to install pandoc?" *)
              <<80, 97, 110, 100, 111, 99, 32, 110, 111, 116, 32, 102, 111, 117, 110, 100, 44, 32, 100, 105, 100, 32, 121, 111, 117, 32, 102, 111, 114, 103, 101, 116, 32, 116, 111, 32, 105, 110, 115, 116, 97, 108, 108, 32, 112, 97, 110, 100, 111, 99, 63>>
    ELSE (* "UTF-8 conversion of pandoc output failed after byte {}." *)
         <<85, 84, 70, 45, 56, 32, 99, 111, 110, 118, 101, 114, 115, 105, 111, 110, 32, 111, 102, 32, 112, 97, 110, 100, 111, 99, 32, 111, 117, 116, 112, 117, 116, 32, 102, 97, 105, 108, 101, 100, 32, 97, 102, 116, 101, 114, 32, 98, 121, 116, 101, 32>>
         \o IntChars(e.n) \o <<46>>

(* impl Display for PandocError                                            *)
PandocErrorDisplay(e) == PandocErrorDebug(e)

(* char::encode_utf8: the bytes of a char in a String.                     *)
encode_utf8(c) ==
    IF c < 128 THEN <<c>>
    ELSE IF c < 2048 THEN <<192 + (c \div 64), 128 + (c % 64)>>
    ELSE IF c < 65536
         THEN <<224 + (c \div 4096), 128 + ((c \div 64) % 64), 128 + (c % 64)>>
    ELSE <<240 + (c \div 262144), 128 + ((c \div 4096) % 64),
           128 + ((c \div 64) % 64), 128 + (c % 64)>>

(* ToString::to_string of a rendering: the bytes of the String.            *)
RECURSIVE to_string(_)
to_string(chars) ==
    IF chars = <<>> THEN <<>>
    ELSE encode_utf8(Head(chars)) \o to_string(Tail(chars))

----------------------------------------------------------------------------
(* The state.                                                              *)

VARIABLES
    pandoc,      \* the builder (`self`): the struct Pandoc
    pre,         \* the pre-pass configuration built by preprocess
    pc,          \* where the program is: "build", the steps of execute
                 \* ("run", "spawn", "write", "wait", "fold"), "done"
                 \* (execute has returned) or "panicked" (aborted)
    who,         \* whose run is in progress: "pre" or "final" ("none" before),
                 \* "template" for the run of generate_latex_template
    cmd,         \* the std::process::Command run has assembled
    input,       \* run's local `input`: the text to write to the child's stdin
    fold_rest,   \* preprocess: the filters the fold has not applied yet
    acc,         \* preprocess: the fold's accumulator
    children,    \* the child processes spawned so far, oldest first
    result,      \* what execute returned
    printed,     \* the command lines println! has written
    log,         \* history: spawn attempts, child exits and filter calls
    orig,        \* history: the configuration execute was called on
    call         \* history: the latest builder call, and the builder before it

vars ==
    <<pandoc, pre, pc, who, cmd, input, fold_rest, acc, children, result,
      printed, log, orig, call>>

exec_vars ==
    <<pre, who, cmd, input, fold_rest, acc, children, result, printed, log,
      orig>>

(* #[derive(Default)] struct Pandoc, and Pandoc::new                       *)
Default ==
    [ input |-> None, input_format |-> None, output |-> None,
      output_format |-> None, latex_path_hint |-> <<>>,
      pandoc_path_hint |-> <<>>, filters |-> <<>>, args |-> <<>>,
      options |-> <<>>, print_pandoc_cmdline |-> FALSE ]

new == [Default EXCEPT !.print_pandoc_cmdline = FALSE]

(* Command::new("pandoc")                                                  *)
NewCommand ==
    [ program |-> "pandoc", args |-> <<>>, env_PATH |-> <<>>,
      stdin |-> "inherit", stdout |-> "inherit", stderr |-> "inherit" ]

Pending == [tag |-> "Pending"]

NoCall == [op |-> [name |-> "none"], before |-> new]

Init ==
    /\ pandoc = new
    /\ pre = new
    /\ pc = "build"
    /\ who = "none"
    /\ cmd = NewCommand
    /\ input = <<>>
    /\ fold_rest = <<>>
    /\ acc = <<>>
    /\ children = <<>>
    /\ result = Pending
    /\ printed = <<>>
    /\ log = <<>>
    /\ orig = new
    /\ call = NoCall

----------------------------------------------------------------------------
(* The builder calls.  Each is enabled while the builder has not been      *)
(* consumed; a list stops growing at its bound.  `call` remembers the call *)
(* and the builder it was made on.                                         *)

push(vec, x) == Append(vec, x)

Call(name) == [name |-> name]

Building(self, op) ==
    /\ pc = "build"
    /\ pandoc' = self
    /\ call' = [op |-> op, before |-> pandoc]
    /\ UNCHANGED <<pc, exec_vars>>

(* The options the test `creation` adds, in the order of its calls.        *)
CreationOptions ==
    << TopLevelDivision("Chapter"), Flag("NumberSections"),
       WithPath("Template", "template.tex"), WithNumber("SlideLevel", 3),
       Flag("TableOfContents"), Flag("Strict"),
       WithString("IndentedCodeClasses", "cake"), WithPath("Filter", "") >>

IsPrefix(s, t) == Len(s) <= Len(t) /\ SubSeq(t, 1, Len(s)) = s

(* The option lists of the model: those within the bound, and the list of  *)
(* the test `creation` as it grows.                                        *)
WithinOptions(options) ==
    Len(options) <= MaxOptions \/ IsPrefix(options, CreationOptions)

PushOption(option, op) ==
    /\ WithinOptions(push(pandoc.options, option))
    /\ Building([pandoc EXCEPT !.options = push(@, option)], op)

add_latex_path_hint(path) ==
    /\ Len(pandoc.latex_path_hint) < MaxHints
    /\ Building([pandoc EXCEPT !.latex_path_hint = push(@, path)],
                [name |-> "add_latex_path_hint", path |-> path])

add_pandoc_path_hint(path) ==
    /\ Len(pandoc.pandoc_path_hint) < MaxHints
    /\ Building([pandoc EXCEPT !.pandoc_path_hint = push(@, path)],
                [name |-> "add_pandoc_path_hint", path |-> path])

set_doc_class(class) ==
    PushOption(KeyValue("Var", "documentclass", <<DocumentClassDisplay(class)>>),
               [name |-> "set_doc_class", class |-> class])

set_show_cmdline(flag) ==
    Building([pandoc EXCEPT !.print_pandoc_cmdline = flag],
             [name |-> "set_show_cmdline", flag |-> flag])

set_output_format(format, extensions) ==
    Building([pandoc EXCEPT !.output_format = SomeFormat(format, extensions)],
             Call("set_output_format"))

set_input_format(format, extensions) ==
    Building([pandoc EXCEPT !.input_format = SomeFormat(format, extensions)],
             Call("set_input_format"))

(* A variant that replaces a piped input instead of aborting.              *)
add_input_Replacing(filename) ==
    /\ pandoc.input.kind = "Files" => Len(pandoc.input.files) < MaxFiles
    /\ Building([pandoc EXCEPT !.input =
                     IF @.kind = "Files" THEN Files(push(@.files, filename))
                     ELSE Files(<<filename>>)],
                [name |-> "add_input", filename |-> filename])

add_input(filename) ==
    /\ pc = "build"
    /\ pandoc.input.kind = "Files" => Len(pandoc.input.files) < MaxFiles
    /\ call' = [op |-> [name |-> "add_input", filename |-> filename],
                before |-> pandoc]
    /\ IF pandoc.input.kind = "Files"
       THEN /\ pandoc' = [pandoc EXCEPT !.input.files = push(@, filename)]
            /\ pc' = pc
       ELSE IF pandoc.input.kind = "Pipe"
       THEN (* panic!("Input has been set to stdin already, ...") *)
            /\ pandoc' = pandoc
            /\ pc' = "panicked"
       ELSE /\ pandoc' = [pandoc EXCEPT !.input = Files(<<filename>>)]
            /\ pc' = pc
    /\ UNCHANGED exec_vars

set_input(inp) ==
    Building([pandoc EXCEPT !.input = inp],
             [name |-> "set_input", input |-> inp])

set_output(output) ==
    Building([pandoc EXCEPT !.output = output], Call("set_output"))

set_bibliography(filename) ==
    PushOption(WithPath("Bibliography", filename),
               [name |-> "set_bibliography", filename |-> filename])

set_csl(filename) ==
    PushOption(WithPath("Csl", filename),
               [name |-> "set_csl", filename |-> filename])

set_toc == PushOption(Flag("TableOfContents"), Call("set_toc"))

set_chapters == PushOption(TopLevelDivision("Chapter"), Call("set_chapters"))

set_number_sections ==
    PushOption(Flag("NumberSections"), Call("set_number_sections"))

set_latex_template(filename) ==
    PushOption(WithPath("Template", filename),
               [name |-> "set_latex_template", filename |-> filename])

set_slide_level(level) ==
    PushOption(WithNumber("SlideLevel", level),
               [name |-> "set_slide_level", level |-> level])

set_variable(key, value) ==
    PushOption(KeyValue("Var", key, <<value>>),
               [name |-> "set_variable", key |-> key, value |-> value])

add_filter(filter) ==
    /\ Len(pandoc.filters) < MaxFilters
    /\ Building([pandoc EXCEPT !.filters = push(@, filter)], Call("add_filter"))

add_option(option) ==
    PushOption(option, [name |-> "add_option", option |-> option])

add_options(options) ==
    /\ WithinOptions(pandoc.options \o options)
    /\ Building([pandoc EXCEPT !.options = @ \o options],
                [name |-> "add_options", options |-> options])

arg(key, value) ==
    /\ Len(pandoc.args) < MaxArgs
    /\ Building([pandoc EXCEPT !.args = push(@, <<key, value>>)], Call("arg"))

----------------------------------------------------------------------------
(* Pandoc::run, up to cmd.spawn(): the command it assembles.               *)

InputFormatArgs(self) ==
    IF self.input_format = None THEN <<>>
    ELSE <<"-f", WithExtensions(InputFormatDisplay(self.input_format.format),
                                self.input_format.extensions)>>

RECURSIVE RawArgs(_)
RawArgs(args) ==
    IF args = <<>> THEN <<>>
    ELSE <<"--" \o Head(args)[1] \o "=" \o Head(args)[2]>> \o RawArgs(Tail(args))

(* A variant that puts the converter hints before the LaTeX hints.         *)
SearchPath_PandocHintsFirst(self) ==
    Join(self.pandoc_path_hint \o self.latex_path_hint \o os_specific_paths
         \o LATEX_PATH \o <<EnvPATH>>, PATH_DELIMIT)

(* The value run installs as the child's PATH.                             *)
SearchPath(self) ==
    Join(self.latex_path_hint \o self.pandoc_path_hint \o os_specific_paths
         \o LATEX_PATH \o <<EnvPATH>>, PATH_DELIMIT)

(* A variant that passes the input paths from the last to the first.       *)
InputArgs_Reversed(inp) ==
    IF inp.kind = "Files"
    THEN [i \in 1..Len(inp.files) |-> inp.files[Len(inp.files) + 1 - i]]
    ELSE <<>>

InputArgs(inp) == IF inp.kind = "Files" THEN inp.files ELSE <<>>

IsFormat(output_format, tag) ==
    output_format # None /\ output_format.format.tag = tag

OutputArgs(output, output_format) ==
    IF output.kind = "File" THEN <<"-o", output.path>>
    ELSE IF IsFormat(output_format, "Pdf") THEN <<"-o", "-">>
    ELSE <<>>

(* The -t tokens, or Panic when rendering the format aborts.               *)
OutputFormatArgs(self) ==
    IF self.output_format = None THEN Rendered(<<>>)
    ELSE LET name == OutputFormatDisplay(self.output_format.format)
         IN  IF ~name.ok THEN Panic
             ELSE Rendered(<<"-t", WithExtensions(name.s,
                                       self.output_format.extensions)>>)

(* A variant that applies the options from the last to the first.          *)
RECURSIVE OptionArgs_Reversed(_)
OptionArgs_Reversed(options) ==
    IF options = <<>> THEN <<>>
    ELSE OptionArgs_Reversed(Tail(options)) \o apply(Head(options))

RECURSIVE OptionArgs(_)
OptionArgs(options) ==
    IF options = <<>> THEN <<>>
    ELSE apply(Head(options)) \o OptionArgs(Tail(options))

(* A variant that appends the input files after everything else.           *)
Assemble_InputsLast(f, raw, inputs, out, t, opts) ==
    f \o raw \o out \o t \o opts \o inputs

(* The order in which run appends the groups of arguments to cmd.          *)
Assemble(f, raw, inputs, out, t, opts) ==
    f \o raw \o inputs \o out \o t \o opts

(* A variant that reports a missing input as a missing output.             *)
CheckSpecified_OneKind(self) ==
    IF self.output = None \/ self.input = None
    THEN ErrKind("NoOutputSpecified")
    ELSE None

(* self.output.ok_or(NoOutputSpecified)?; self.input.ok_or(NoInputSpecified)? *)
CheckSpecified(self) ==
    IF self.output = None THEN ErrKind("NoOutputSpecified")
    ELSE IF self.input = None THEN ErrKind("NoInputSpecified")
    ELSE None

(* What run has when it reaches cmd.spawn(): the command and the text for  *)
(* the child's stdin; or the error it returned; or a panic.                *)
RunCommand(self) ==
    IF CheckSpecified(self) # None
    THEN [outcome |-> "err", err |-> CheckSpecified(self)]
    ELSE IF ~OutputFormatArgs(self).ok THEN [outcome |-> "panic"]
    ELSE [ outcome |-> "ok",
           cmd |->
             [ NewCommand EXCEPT
                 !.args = Assemble(InputFormatArgs(self), RawArgs(self.args),
                                   InputArgs(self.input),
                                   OutputArgs(self.output, self.output_format),
                                   OutputFormatArgs(self).s,
                                   OptionArgs(self.options)),
                 !.env_PATH = <<SearchPath(self)>>,
                 !.stdin = IF self.input.kind = "Pipe" THEN "piped" ELSE "inherit",
                 !.stdout = IF self.output.kind = "Pipe" THEN "piped" ELSE "inherit",
                 !.stderr = "piped" ],
           input |-> IF self.input.kind = "Pipe" THEN self.input.text ELSE <<>> ]

----------------------------------------------------------------------------
(* Pandoc::preprocess: the two configurations it leaves.                   *)

(* A variant that keeps the extensions of the original input format.       *)
FilteredInputFormat_KeepingExtensions(input_format) ==
    SomeFormat(Fmt("Json"),
               IF input_format = None THEN <<>> ELSE input_format.extensions)

(* The input format of the final invocation of a filtered run.             *)
FilteredInputFormat(input_format) == SomeFormat(Fmt("Json"), <<>>)

(* A variant that hands the options and the raw args to the pre-pass too.  *)
PrePass_WithOptions(self) ==
    [ new EXCEPT
        !.pandoc_path_hint = self.pandoc_path_hint,
        !.latex_path_hint = self.latex_path_hint,
        !.output = OutPipe,
        !.output_format = SomeFormat(Fmt("Json"), <<>>),
        !.input = self.input,
        !.print_pandoc_cmdline = self.print_pandoc_cmdline,
        !.input_format = self.input_format,
        !.options = self.options,
        !.args = self.args ]

PrePass(self) ==
    [ new EXCEPT
        !.pandoc_path_hint = self.pandoc_path_hint,
        !.latex_path_hint = self.latex_path_hint,
        !.output = OutPipe,
        !.output_format = SomeFormat(Fmt("Json"), <<>>),
        !.input = self.input,
        !.print_pandoc_cmdline = self.print_pandoc_cmdline,
        !.input_format = self.input_format ]

(* A variant that leaves the final invocation without the options.         *)
Preprocessed_WithoutOptions(self) ==
    [ self EXCEPT
        !.filters = <<>>,
        !.input = None,
        !.input_format = FilteredInputFormat(self.input_format),
        !.options = <<>> ]

Preprocessed(self) ==
    [ self EXCEPT
        !.filters = <<>>,
        !.input = None,
        !.input_format = FilteredInputFormat(self.input_format) ]

(* A variant that folds from the last registered filter to the first.      *)
FoldOrder_Reversed(filters) ==
    [i \in 1..Len(filters) |-> filters[Len(filters) + 1 - i]]

(* The order in which the fold calls the filters.                          *)
FoldOrder(filters) == filters

(* The filter functions the caller registers: inputs of the model.         *)
ApplyFilter(filter, text) ==
    IF filter = "identity" THEN text
    ELSE (* "append": pushes a newline *) text \o <<10>>

(* A variant that takes Pdf alone for a binary format.                     *)
ExecuteResult_PdfOnly(output_kind, output_format, output) ==
    IF output_kind = None THEN Err(ErrKind("NoOutputSpecified"))
    ELSE IF output_kind.kind = "File"
    THEN Ok([kind |-> "ToFile", path |-> output_kind.path])
    ELSE IF IsFormat(output_format, "Pdf")
    THEN Ok([kind |-> "ToBufferRaw", bytes |-> output])
    ELSE IF from_utf8(output).ok
    THEN Ok([kind |-> "ToBuffer", string |-> from_utf8(output).string])
    ELSE Err(FromUtf8Error(from_utf8(output)))

(* execute's match on (output_kind, output_format) after a successful run. *)
ExecuteResult(output_kind, output_format, output) ==
    IF output_kind = None THEN Err(ErrKind("NoOutputSpecified"))
    ELSE IF output_kind.kind = "File"
    THEN Ok([kind |-> "ToFile", path |-> output_kind.path])
    ELSE IF IsFormat(output_format, "Pdf") \/ IsFormat(output_format, "Docx")
    THEN Ok([kind |-> "ToBufferRaw", bytes |-> output])
    ELSE IF from_utf8(output).ok
    THEN Ok([kind |-> "ToBuffer", string |-> from_utf8(output).string])
    ELSE Err(FromUtf8Error(from_utf8(output)))

----------------------------------------------------------------------------
(* Pandoc::execute, step by step.  The steps between two interactions with *)
(* the operating system or a filter are one action.                        *)

(* The configuration whose run is in progress.                             *)
Self == IF who = "pre" THEN pre ELSE pandoc

(* run returns res: to execute, which returns it to its caller (`?`, or    *)
(* the value of its match), or to generate_latex_template, which unwraps   *)
(* it.                                                                     *)
Return(res) ==
    IF who = "template"
    THEN /\ result' = IF res.tag = "Err" THEN result ELSE res
         /\ pc' = IF res.tag = "Err" THEN "panicked" ELSE "create"
    ELSE /\ result' = res
         /\ pc' = "done"

(* execute is called: preprocess takes the filters and, when there are     *)
(* any, sets up the pre-pass; then run is entered (pre.run or self.run).   *)
execute ==
    /\ pc = "build"
    /\ orig' = pandoc
    /\ call' = NoCall
    /\ pc' = "run"
    /\ IF pandoc.filters = <<>>
       THEN /\ who' = "final"
            /\ UNCHANGED <<pandoc, pre, fold_rest>>
       ELSE /\ who' = "pre"
            /\ pre' = PrePass(pandoc)
            /\ pandoc' = Preprocessed(pandoc)
            /\ fold_rest' = FoldOrder(pandoc.filters)
    /\ UNCHANGED <<cmd, input, acc, children, result, printed, log>>

(* run assembles the command, up to the call of cmd.spawn().               *)
run ==
    /\ pc = "run"
    /\ LET r == RunCommand(Self)
       IN  IF r.outcome = "err"
           THEN /\ Return(Err(r.err))
                /\ UNCHANGED <<cmd, input, printed>>
           ELSE IF r.outcome = "panic"
           THEN /\ pc' = "panicked"
                /\ UNCHANGED <<cmd, input, printed, result>>
           ELSE /\ cmd' = r.cmd
                /\ input' = r.input
                /\ printed' = IF Self.print_pandoc_cmdline
                              THEN Append(printed, r.cmd.args) ELSE printed
                /\ pc' = "spawn"
                /\ UNCHANGED result
    /\ UNCHANGED <<pandoc, pre, who, fold_rest, acc, children, log, orig,
                   call>>

(* What cmd.spawn(), stdin.write_all() and wait_with_output() can fail     *)
(* with: the kinds of std::io::Error the system calls behind them give.    *)
SpawnErrors == {"NotFound", "PermissionDenied"}

WriteErrors == {"BrokenPipe"}

WaitErrors == {"Other"}

(* History of a failed system call.                                        *)
IoErrorEvent(fn, kind) ==
    [ev |-> "io_error", who |-> who, call |-> fn, kind |-> kind]

SpawnEvent(ok) ==
    [ ev |-> "spawn", who |-> who, ok |-> ok, args |-> cmd.args,
      stdin |-> cmd.stdin, input |-> input ]

(* cmd.spawn()?, and `if let Some(ref mut stdin) = child.stdin`            *)
spawn(res) ==
    /\ pc = "spawn"
    /\ log' = IF res = "ok" THEN Append(log, SpawnEvent(TRUE))
               ELSE log \o <<SpawnEvent(FALSE), IoErrorEvent("spawn", res)>>
    /\ IF res = "ok"
       THEN /\ children' = Append(children,
                   [ who |-> who, handle |-> "held", received |-> <<>>,
                     stdin |-> IF cmd.stdin = "piped" THEN "open" ELSE "none",
                     pipe_in |-> <<>>, pipe_out |-> <<>>, pending |-> <<>>,
                     drained |-> <<>>, exited |-> FALSE ])
            /\ pc' = IF cmd.stdin = "piped" THEN "write" ELSE "wait"
            /\ UNCHANGED result
       ELSE /\ Return(Err(FromIoError(res)))
            /\ UNCHANGED children
    /\ UNCHANGED <<pandoc, pre, who, cmd, input, fold_rest, acc, printed,
                   orig, call>>

LastChild == children[Len(children)]

SetLastChild(c) == [children EXCEPT ![Len(children)] = c]

(* stdin.write_all(input.as_bytes())?  On an error run returns and the     *)
(* Child is dropped, which closes its pipes and does not wait for it.      *)
write_all(res) ==
    /\ pc = "write"
    /\ IF res = "ok"
       THEN /\ children' = SetLastChild([LastChild EXCEPT !.received = input])
            /\ pc' = "wait"
            /\ UNCHANGED <<result, log>>
       ELSE /\ children' = SetLastChild([LastChild EXCEPT !.handle = "dropped",
                                                          !.stdin = "closed"])
            /\ log' = Append(log, IoErrorEvent("write_all", res))
            /\ Return(Err(FromIoError(res)))
    /\ UNCHANGED <<pandoc, pre, who, cmd, input, fold_rest, acc, printed,
                   orig, call>>

(* A variant that takes every exit code for a success.                     *)
Success_AnyCode(status) == status # <<>>

(* ExitStatus::success: the child exited, with code 0.                     *)
Success(status) == status = <<0>>

(* A variant that takes a child without an exit code for a success.        *)
RunResult_CodeOrZero(output) ==
    IF output.status \in {<<0>>, <<>>} THEN Ok(output.stdout)
    ELSE Err(ErrOutput(output))

(* run's last expression: Ok(o.stdout) or Err(PandocError::Err(o))         *)
RunResult(output) ==
    IF Success(output.status) THEN Ok(output.stdout)
    ELSE Err(ErrOutput(output))

(* History of a child's exit: the Output run got.  Of a child that exited  *)
(* with success run keeps the stdout alone, and so does the history.       *)
ExitEvent(output) ==
    [ ev |-> "exit", who |-> who, status |-> output.status,
      stdout |-> output.stdout,
      stderr |-> IF Success(output.status) THEN <<>> ELSE output.stderr ]

Reaped(c) ==
    [c EXCEPT !.handle = "waited",
              !.stdin = IF @ = "none" THEN "none" ELSE "closed",
              !.exited = TRUE]

(* child.wait_with_output()? and what follows it without another system    *)
(* call or filter call.  The child exits with `status` (<<>>: killed by a  *)
(* signal) having written `out` to its stdout and `err` to its stderr.     *)
wait_with_output(res, status, out, err) ==
    /\ pc = "wait"
    /\ IF res # "ok"
       THEN /\ children' = SetLastChild([LastChild EXCEPT !.handle = "dropped",
                                                          !.stdin = "closed"])
            /\ log' = Append(log, IoErrorEvent("wait_with_output", res))
            /\ Return(Err(FromIoError(res)))
            /\ UNCHANGED <<pandoc, who, fold_rest, acc>>
       ELSE LET output == [ status |-> status, stderr |-> err,
                            stdout |-> IF cmd.stdout = "piped" THEN out ELSE <<>> ]
            IN  /\ children' = SetLastChild(Reaped(LastChild))
                /\ log' = Append(log, ExitEvent(output))
                /\ IF RunResult(output).tag = "Err" \/ who = "template"
                   THEN (* pre.run()? or self.run()?, or self.run().unwrap() *)
                        /\ Return(RunResult(output))
                        /\ UNCHANGED <<pandoc, who, fold_rest, acc>>
                   ELSE IF who = "pre"
                   THEN (* String::from_utf8(o).unwrap(), then the fold *)
                        /\ UNCHANGED <<pandoc, who, fold_rest, result>>
                        /\ IF from_utf8(RunResult(output).val).ok
                           THEN /\ acc' = from_utf8(RunResult(output).val).string
                                /\ pc' = "fold"
                           ELSE /\ acc' = acc
                                /\ pc' = "panicked"
                   ELSE (* execute's match on the output kind *)
                        /\ Return(ExecuteResult(pandoc.output,
                                                pandoc.output_format,
                                                RunResult(output).val))
                        /\ UNCHANGED <<pandoc, who, fold_rest, acc>>
    /\ UNCHANGED <<pre, cmd, input, printed, orig, call>>

(* generate_latex_template(filename), up to self.run(): the output format  *)
(* is rendered and unwrapped, and added as the raw argument                *)
(* print-default-template.                                                 *)
generate_latex_template(filename) ==
    /\ pc = "build"
    /\ orig' = pandoc
    /\ call' = [ op |-> [name |-> "generate_latex_template",
                         filename |-> filename],
                 before |-> pandoc ]
    /\ IF \/ pandoc.output_format = None
          \/ ~OutputFormatDisplay(pandoc.output_format.format).ok
       THEN /\ pc' = "panicked"
            /\ UNCHANGED <<pandoc, who>>
       ELSE /\ pandoc' =
                  [ pandoc EXCEPT !.args =
                      push(@, << "print-default-template",
                                 WithExtensions(
                                   OutputFormatDisplay(
                                       pandoc.output_format.format).s,
                                   pandoc.output_format.extensions) >>) ]
            /\ who' = "template"
            /\ pc' = "run"
    /\ UNCHANGED <<pre, cmd, input, fold_rest, acc, children, result, printed,
                   log>>

(* The kinds of error File::create and File::write_all fail with here.     *)
FileErrors == {"PermissionDenied"}

(* std::fs::File::create(filename).unwrap() and                            *)
(* file.write_all(&output).unwrap(): the file is created or truncated,     *)
(* then the output of the run is written to it.  `result` keeps `output`.  *)
write_template(res) ==
    /\ pc = "create"
    /\ IF res = "ok"
       THEN /\ log' = Append(log, [ ev |-> "file", who |-> who,
                                    path |-> call.op.filename,
                                    bytes |-> result.val ])
            /\ pc' = "done"
       ELSE /\ log' = Append(log, IoErrorEvent("File::create", res))
            /\ pc' = "panicked"
    /\ UNCHANGED <<pandoc, pre, who, cmd, input, fold_rest, acc, children,
                   result, printed, orig, call>>

(* One step `item(acc)` of the fold; after the last one preprocess sets    *)
(* self.input and returns, and execute enters self.run().                  *)
apply_filter ==
    /\ pc = "fold"
    /\ LET item == Head(fold_rest)
           ret == ApplyFilter(item, acc)
       IN  /\ acc' = ret
           /\ fold_rest' = Tail(fold_rest)
           /\ log' = Append(log,
                 [ ev |-> "filter", filter |-> item, arg |-> acc, ret |-> ret,
                   index |-> Len(orig.filters) - Len(fold_rest) + 1 ])
           /\ IF Tail(fold_rest) = <<>>
              THEN /\ pandoc' = [pandoc EXCEPT !.input = Pipe(ret)]
                   /\ who' = "final"
                   /\ pc' = "run"
              ELSE UNCHANGED <<pandoc, who, pc>>
    /\ UNCHANGED <<pre, cmd, input, children, result, printed, orig,
                   call>>

----------------------------------------------------------------------------
(* The environment: what the child process does.                           *)

(* The sequences of at most n elements of S.                               *)
RECURSIVE SeqsUpTo(_, _)
SeqsUpTo(S, n) ==
    IF n = 0 THEN {<<>>}
    ELSE LET shorter == SeqsUpTo(S, n - 1)
         IN  shorter \cup {Append(q, x) : q \in shorter, x \in S}

(* 'A', and the two bytes of U+00E9: alone they are ill-formed.            *)
StdoutBytes == {65, 195, 169}

(* 'E', and a byte that is never part of UTF-8.                            *)
StderrBytes == {69, 255}

ChildStdout ==
    IF cmd.stdout = "piped" THEN SeqsUpTo(StdoutBytes, MaxOut) ELSE {<<>>}

ChildStderr == {<<>>} \cup {<<b>> : b \in StderrBytes}

ExitStatuses == {<<0>>, <<1>>, <<>>}

Child ==
    \/ \E res \in {"ok"} \cup SpawnErrors : spawn(res)
    \/ \E res \in {"ok"} \cup WriteErrors : write_all(res)
    \/ \E res \in WaitErrors : wait_with_output(res, <<0>>, <<>>, <<>>)
    \/ \E status \in ExitStatuses, out \in ChildStdout, err \in ChildStderr :
          wait_with_output("ok", status, out, err)

----------------------------------------------------------------------------
(* The specification of the execution pipeline: inputs, sinks, binary and  *)
(* text output formats, filters, and every behaviour of the child.         *)

FilterFunctions == {"identity", "append"}

Next ==
    \/ add_input("cake")
    \/ set_input(Pipe(<<35>>))
    \/ \E output \in {OutFile("lie"), OutPipe} : set_output(output)
    \/ \E f \in {"Pdf", "Docx", "Html"} : set_output_format(Fmt(f), <<>>)
    \/ \E filter \in FilterFunctions : add_filter(filter)
    \/ execute
    \/ run
    \/ Child
    \/ apply_filter

Spec == Init /\ [][Next]_vars

----------------------------------------------------------------------------
(* The specification of argument assembly: every group of arguments may be *)
(* present or absent, formats carry extension lists, and the run may be    *)
(* filtered.  The child is a pandoc that prints "[]" and exits with 0 or 1.*)

ExtensionSamples == {Fmt("Smart"), FmtOther("east_asian_line_breaks")}

CannedChild ==
    \/ spawn("ok")
    \/ write_all("ok")
    \/ \E status \in {<<0>>, <<1>>} :
          wait_with_output("ok", status,
                           IF cmd.stdout = "piped" THEN <<91, 93>> ELSE <<>>, <<>>)

NextArgs ==
    \/ \E extensions \in SeqsUpTo(ExtensionSamples, MaxExtensions) :
          set_input_format(Fmt("Markdown"), extensions)
    \/ arg("toc-depth", "2")
    \/ add_input("cake")
    \/ set_input(Pipe(<<35>>))
    \/ \E output \in {OutFile("lie"), OutPipe} : set_output(output)
    \/ \E format \in {SomeFormat(Fmt("Pdf"), <<>>),
                      SomeFormat(Fmt("Html"), <<Fmt("Smart")>>)} :
          set_output_format(format.format, format.extensions)
    \/ add_option(Flag("Strict"))
    \/ add_filter("identity")
    \/ execute
    \/ run
    \/ CannedChild
    \/ apply_filter

SpecArgs == Init /\ [][NextArgs]_vars

----------------------------------------------------------------------------
(* The specification of the options: every call that adds options, with    *)
(* the other parts of the configuration as in the test `creation`.         *)

OptionSamples ==
    { Flag("Strict"), WithString("IndentedCodeClasses", "cake"),
      WithPath("Filter", ""), Flag("Standalone"),
      KeyValue("Meta", "title", <<>>), NumberOffset(<<1, 2>>) }

OptionListSamples ==
    { <<>>, <<Flag("Strict"), Flag("Standalone")>>,
      <<WithUrl("MathJax", <<>>), WithNumber("TabStop", 4)>> }

NextOptions ==
    \/ add_input("cake")
    \/ set_output(OutFile("lie"))
    \/ set_output_format(Fmt("Beamer"), <<>>)
    \/ add_latex_path_hint("D:\\texlive\\2015\\bin\\win32")
    \/ set_chapters
    \/ set_number_sections
    \/ set_latex_template("template.tex")
    \/ set_slide_level(3)
    \/ set_toc
    \/ set_bibliography("refs.bib")
    \/ set_csl("ieee.csl")
    \/ set_variable("fontsize", "12pt")
    \/ \E class \in DOMAIN DocumentClassNames : set_doc_class(class)
    \/ \E option \in OptionSamples : add_option(option)
    \/ \E options \in OptionListSamples : add_options(options)
    \/ execute
    \/ run
    \/ spawn("ok")
    \/ \E status \in {<<0>>, <<1>>} : wait_with_output("ok", status, <<>>, <<>>)

SpecOptions == Init /\ [][NextOptions]_vars

----------------------------------------------------------------------------
(* The properties.  `Executing` holds from the call of execute on; `orig`  *)
(* is then the configuration execute was called on.                        *)

Executing == who # "none"

Returned == pc = "done"

Events(ev) == {i \in DOMAIN log : log[i].ev = ev}

(* C1: for every configuration with no output sink, with or without an     *)
(* input source and with or without filters, execute returns               *)
(* NoOutputSpecified and no child process is spawned during the call.      *)
C1_NoOutputSpecified ==
    (Executing /\ orig.output = None) =>
        /\ Events("spawn") = {}
        /\ children = <<>>
        /\ Returned => result = Err(ErrKind("NoOutputSpecified"))

C3_FailFastEitherOrder ==
    /\ (call.op.name = "add_input" /\ call.before.input.kind = "Pipe") =>
          pc = "panicked"
    /\ (/\ call.op.name = "set_input"
        /\ call.op.input.kind = "Pipe"
        /\ call.before.input.kind = "Files") =>
          pc = "panicked"

(* C3, amended: add_input after set_input(Pipe) aborts and leaves the      *)
(* configuration as it was; add_input otherwise appends the file to the    *)
(* files supplied so far; set_input never aborts and replaces whatever     *)
(* input was supplied, so that set_input(Pipe) after add_input keeps the   *)
(* piped text and discards the files.                                      *)
C3_AddInputAbortsSetInputReplaces ==
    /\ call.op.name = "add_input" =>
          IF call.before.input.kind = "Pipe"
          THEN pc = "panicked" /\ pandoc = call.before
          ELSE /\ pc = "build"
               /\ pandoc.input =
                    Files((IF call.before.input = None THEN <<>>
                           ELSE call.before.input.files)
                          \o <<call.op.filename>>)
    /\ call.op.name = "set_input" =>
          /\ pc = "build"
          /\ pandoc.input = call.op.input

C3_Witness ==
    /\ call.op.name = "set_input"
    /\ call.before.input.kind = "Files"
    /\ pandoc.input.kind = "Pipe"
    /\ pc = "build"

C3_WitnessAbort ==
    /\ call.op.name = "add_input"
    /\ call.before.input.kind = "Pipe"
    /\ pc = "panicked"

(* s has t as a contiguous part.                                           *)
Contains(s, t) ==
    \E i \in 0..(Len(s) - Len(t)) : SubSeq(s, i + 1, i + Len(t)) = t

FinalExits == {i \in Events("exit") : log[i].who = "final"}

(* C4: whenever the child of the final invocation exits with a non-success *)
(* status (a code other than 0, or no code), execute returns the Err kind  *)
(* with that status and all of the captured stdout and stderr, never a     *)
(* success; Display and Debug render the same text, which contains the     *)
(* exit code and the captured stdout and stderr text (lossily decoded; the *)
(* very bytes when they are UTF-8).                                        *)
C4_FailureReported ==
    \A i \in FinalExits :
        log[i].status # <<0>> =>
            /\ i = Len(log)
            /\ Returned
            /\ result = Err(ErrOutput([ status |-> log[i].status,
                                        stdout |-> log[i].stdout,
                                        stderr |-> log[i].stderr ]))
            /\ PandocErrorDisplay(result.err) = PandocErrorDebug(result.err)
            /\ LET text == PandocErrorDisplay(result.err)
               IN  /\ log[i].status # <<>> =>
                         Contains(text, IntChars(log[i].status[1]))
                   /\ Contains(text, from_utf8_lossy(log[i].stdout))
                   /\ Contains(text, from_utf8_lossy(log[i].stderr))
                   /\ from_utf8(log[i].stdout).ok =>
                         Contains(to_string(text), log[i].stdout)
                   /\ from_utf8(log[i].stderr).ok =>
                         Contains(to_string(text), log[i].stderr)

C4_Witness ==
    /\ Returned
    /\ result.tag = "Err"
    /\ result.err.kind = "Err"
    /\ result.err.output =
          [status |-> <<1>>, stdout |-> <<195, 169>>, stderr |-> <<69>>]
    /\ FinalExits # {}

(* C5: a failure of spawn whose error is `not found` is returned from      *)
(* execute as PandocNotFound; every other I/O failure of spawn, of the     *)
(* write to stdin or of the wait is returned as IoErr with the original    *)
(* error; and neither kind is returned for anything else.                  *)
C5_IoErrors ==
    /\ \A i \in Events("io_error") :
          LET not_found == log[i].call = "spawn" /\ log[i].kind = "NotFound"
          IN  /\ i = Len(log)
              /\ Returned
              /\ result = Err(IF not_found THEN ErrKind("PandocNotFound")
                              ELSE IoErr(log[i].kind))
              /\ not_found <=> result.err.kind = "PandocNotFound"
              /\ ~not_found <=> result.err.kind = "IoErr"
    /\ (/\ Returned
        /\ result.tag = "Err"
        /\ result.err.kind \in {"PandocNotFound", "IoErr"}) =>
          Len(log) \in Events("io_error")

C5_Witness ==
    /\ Returned
    /\ result = Err(ErrKind("PandocNotFound"))
    /\ \E i \in Events("io_error") :
          log[i].call = "spawn" /\ log[i].kind = "NotFound"

C5_WitnessIoErr ==
    /\ Returned
    /\ result = Err(IoErr("BrokenPipe"))
    /\ \E i \in Events("io_error") : log[i].call = "write_all"

(* UTF-8 text over the bytes the child writes, stated without the decoder: *)
(* a sequence of the units 'A' and U+00E9.                                 *)
TextUnits == {<<65>>, <<195, 169>>}

RECURSIVE IsText(_)
IsText(b) ==
    \/ b = <<>>
    \/ \E u \in TextUnits :
          /\ Len(u) <= Len(b)
          /\ SubSeq(b, 1, Len(u)) = u
          /\ IsText(SubSeq(b, Len(u) + 1, Len(b)))

(* The number of valid leading bytes: the longest prefix that is text.     *)
ValidLeading(b) ==
    CHOOSE k \in 0..Len(b) :
        /\ IsText(SubSeq(b, 1, k))
        /\ \A m \in (k + 1)..Len(b) : ~IsText(SubSeq(b, 1, m))

(* C6: on a successful final invocation the value execute returns depends  *)
(* on the sink and the output format alone: File(p) gives ToFile(p), and   *)
(* stdout is not captured; Pipe with Pdf or Docx gives ToBufferRaw of the  *)
(* captured bytes; Pipe with another or no format gives ToBuffer of the    *)
(* captured bytes when they are UTF-8 and BadUtf8Conversion(n) otherwise,  *)
(* n the number of valid leading bytes.                                    *)
C6_SuccessValue ==
    \A i \in FinalExits :
        log[i].status = <<0>> =>
            /\ i = Len(log)
            /\ Returned
            /\ IF orig.output.kind = "File"
               THEN /\ result = Ok([kind |-> "ToFile", path |-> orig.output.path])
                    /\ cmd.stdout = "inherit"
                    /\ log[i].stdout = <<>>
               ELSE /\ orig.output = OutPipe
                    /\ cmd.stdout = "piped"
                    /\ IF /\ orig.output_format # None
                          /\ orig.output_format.format.tag \in {"Pdf", "Docx"}
                       THEN result = Ok([ kind |-> "ToBufferRaw",
                                          bytes |-> log[i].stdout ])
                       ELSE IF IsText(log[i].stdout)
                       THEN result = Ok([ kind |-> "ToBuffer",
                                          string |-> log[i].stdout ])
                       ELSE result =
                              Err(BadUtf8Conversion(ValidLeading(log[i].stdout)))

C6_Witness ==
    /\ Returned
    /\ orig.output = OutPipe
    /\ orig.output_format = SomeFormat(Fmt("Html"), <<>>)
    /\ result = Err(BadUtf8Conversion(1))
    /\ \E i \in FinalExits : log[i].stdout = <<65, 169>>

C6_WitnessRaw ==
    /\ Returned
    /\ orig.output = OutPipe
    /\ orig.output_format = SomeFormat(Fmt("Docx"), <<>>)
    /\ result = Ok([kind |-> "ToBufferRaw", bytes |-> <<169>>])

(* C8: with at least one filter registered execute does this, in this      *)
(* order, and nothing else: the pre-pass invocation, to its exit; each     *)
(* registered filter once, in registration order, the first on the         *)
(* pre-pass output and each other on the result of the one before; the     *)
(* final invocation, with the last result as the text for its piped stdin  *)
(* and the input format json.  Without filters there is no pre-pass and no *)
(* filter call, and one invocation is spawned.                             *)
C8_FilteredRunOrder ==
    /\ (Executing /\ orig.filters # <<>>) =>
          LET n == Len(orig.filters)
          IN  /\ Len(log) <= n + 4
              /\ \A i \in DOMAIN log :
                    /\ i = 1 => log[i].ev = "spawn" /\ log[i].who = "pre"
                    /\ i = 2 =>
                          /\ log[i].ev \in {"exit", "io_error"}
                          /\ log[i].who = "pre"
                          /\ log[i].ev = "exit" => log[1].ok
                    /\ i > 2 =>
                          /\ log[2].ev = "exit"
                          /\ log[2].status = <<0>>
                    /\ (i > 2 /\ i <= n + 2) =>
                          /\ log[i].ev = "filter"
                          /\ log[i].index = i - 2
                          /\ log[i].filter = orig.filters[i - 2]
                          /\ log[i].arg = IF i = 3 THEN log[2].stdout
                                          ELSE log[i - 1].ret
                          /\ log[i].ret = ApplyFilter(orig.filters[i - 2],
                                                      log[i].arg)
                    /\ i = n + 3 =>
                          /\ log[i].ev = "spawn"
                          /\ log[i].who = "final"
                          /\ log[i].stdin = "piped"
                          /\ log[i].input = log[n + 2].ret
                          /\ SubSeq(log[i].args, 1, 2) = <<"-f", "json">>
                    /\ i = n + 4 =>
                          /\ log[i].ev \in {"exit", "io_error"}
                          /\ log[i].who = "final"
                          /\ log[i].ev = "exit" =>
                                /\ log[n + 3].ok
                                /\ LastChild.received = log[n + 2].ret
              /\ (Returned /\ result.tag = "Ok") =>
                    Len(log) = n + 4 /\ Len(children) = 2
    /\ (Executing /\ orig.filters = <<>>) =>
          /\ \A i \in DOMAIN log : log[i].ev # "filter" /\ log[i].who = "final"
          /\ Cardinality(Events("spawn")) <= 1
          /\ Len(children) <= 1
          /\ (Returned /\ result.tag = "Ok") =>
                Cardinality(Events("spawn")) = 1 /\ Len(children) = 1

C8_Witness ==
    /\ Returned
    /\ result.tag = "Ok"
    /\ orig.filters = <<"append", "identity">>
    /\ Len(log) = 6
    /\ log[6].ev = "exit"

C8_WitnessUnfiltered ==
    /\ Returned
    /\ result.tag = "Ok"
    /\ orig.filters = <<>>
    /\ Len(log) = 2

Range(seq) == {seq[i] : i \in DOMAIN seq}

Spawning == pc \in {"spawn", "write", "wait"}

(* The groups of arguments of the invocation in progress.                  *)
FormatGroup == InputFormatArgs(Self)

RawGroup == RawArgs(Self.args)

SinkGroup == OutputArgs(Self.output, Self.output_format)

ToGroup == OutputFormatArgs(Self).s

OptionGroup == OptionArgs(Self.options)

InputGroup == InputArgs(Self.input)

(* C7, as claimed: the arguments of every invocation are -f (if set), the  *)
(* raw args, the sink (-o), -t (if set), the options, and last the input   *)
(* file paths; no input path precedes the -o, -t or option tokens.         *)
C7_InputsLast ==
    Spawning =>
        /\ cmd.args = FormatGroup \o RawGroup \o SinkGroup \o ToGroup
                      \o OptionGroup \o InputGroup
        /\ \A i, j \in DOMAIN cmd.args :
              (/\ cmd.args[i] \in Range(InputGroup)
               /\ cmd.args[j] \in Range(SinkGroup \o ToGroup \o OptionGroup)) =>
                  j < i

(* C7, amended: the arguments of every invocation are -f (if set), the raw *)
(* args in insertion order, the input file paths (file-based input only),  *)
(* the sink (-o and the path for a file; -o - for a pipe with format Pdf;  *)
(* nothing for another pipe), -t (if set), and last the options in         *)
(* insertion order; every input path follows the -f and raw tokens and     *)
(* precedes the -o, -t and option tokens.                                  *)
C7_InputsBeforeSink ==
    Spawning =>
        /\ cmd.args = FormatGroup \o RawGroup \o InputGroup \o SinkGroup
                      \o ToGroup \o OptionGroup
        /\ \A i, j \in DOMAIN cmd.args :
              cmd.args[i] \in Range(InputGroup) =>
                  /\ cmd.args[j] \in Range(SinkGroup \o ToGroup \o OptionGroup)
                        => i < j
                  /\ cmd.args[j] \in Range(FormatGroup \o RawGroup) => j < i
        /\ SinkGroup = IF Self.output.kind = "File"
                       THEN <<"-o", Self.output.path>>
                       ELSE IF /\ Self.output_format # None
                               /\ Self.output_format.format = Fmt("Pdf")
                       THEN <<"-o", "-">>
                       ELSE <<>>

C7_Witness ==
    /\ pc = "spawn"
    /\ who = "final"
    /\ cmd.args = << "-f", "markdown+smart", "--toc-depth=2", "cake", "-o",
                     "lie", "-t", "html+smart", "--strict" >>

(* C9, as claimed: in a filtered run the -f token of the final invocation  *)
(* is json followed by +e for each extension e of the original input       *)
(* format, in order.                                                       *)
C9_JsonKeepsExtensions ==
    \A i \in Events("spawn") :
        (orig.filters # <<>> /\ log[i].who = "final") =>
            SubSeq(log[i].args, 1, 2) =
                << "-f", WithExtensions("json",
                            IF orig.input_format = None THEN <<>>
                            ELSE orig.input_format.extensions) >>

(* C9, amended: in a filtered run the -f token of the final invocation is  *)
(* json alone, whatever the original input format and its extensions; the  *)
(* original format with its extension list is the -f token of the pre-pass *)
(* (which has no -f when no input format was set).                         *)
C9_JsonWithoutExtensions ==
    \A i \in Events("spawn") :
        orig.filters # <<>> =>
            IF log[i].who = "final"
            THEN /\ SubSeq(log[i].args, 1, 2) = <<"-f", "json">>
                 /\ \A j \in 3..Len(log[i].args) : log[i].args[j] # "-f"
            ELSE IF orig.input_format = None
            THEN "-f" \notin Range(log[i].args)
            ELSE SubSeq(log[i].args, 1, 2) =
                    << "-f", WithExtensions(
                                InputFormatDisplay(orig.input_format.format),
                                orig.input_format.extensions) >>

C9_Witness ==
    /\ orig.filters # <<>>
    /\ orig.input_format =
          SomeFormat(Fmt("Markdown"),
                     <<Fmt("Smart"), FmtOther("east_asian_line_breaks")>>)
    /\ \E i, j \in Events("spawn") :
          /\ log[i].who = "pre"
          /\ log[i].args[2] = "markdown+smart+east_asian_line_breaks"
          /\ log[j].who = "final"
          /\ log[j].args[2] = "json"

(* The renderings of options[1..n], one after the other.                   *)
RECURSIVE RenderingUpTo(_, _)
RenderingUpTo(options, n) ==
    IF n = 0 THEN <<>>
    ELSE RenderingUpTo(options, n - 1) \o apply(options[n])

Rendering(options) == RenderingUpTo(options, Len(options))

OptionCalls ==
    { "add_option", "add_options", "set_chapters", "set_number_sections",
      "set_latex_template", "set_slide_level", "set_toc", "set_bibliography",
      "set_csl", "set_variable", "set_doc_class" }

(* The tokens a call adds to the options portion.                          *)
TokensOf(op) ==
    IF op.name = "add_option" THEN apply(op.option)
    ELSE IF op.name = "add_options" THEN Rendering(op.options)
    ELSE IF op.name = "set_chapters" THEN <<"--top-level-division=chapter">>
    ELSE IF op.name = "set_number_sections" THEN <<"--number-sections">>
    ELSE IF op.name = "set_latex_template" THEN <<"--template=" \o op.filename>>
    ELSE IF op.name = "set_slide_level"
         THEN <<"--slide-level=" \o ToString(op.level)>>
    ELSE IF op.name = "set_toc" THEN <<"--table-of-contents">>
    ELSE IF op.name = "set_bibliography"
         THEN <<"--bibliography=" \o op.filename>>
    ELSE IF op.name = "set_csl" THEN <<"--csl=" \o op.filename>>
    ELSE IF op.name = "set_variable"
         THEN <<"-V", op.key \o ":" \o op.value>>
    ELSE (* set_doc_class *)
         <<"-V", "documentclass:" \o DocumentClassNames[op.class]>>

C10_WitnessSetters ==
    /\ pc = "spawn"
    /\ Len(cmd.args) >= 4
    /\ SubSeq(cmd.args, Len(cmd.args) - 3, Len(cmd.args)) =
          <<"-V", "documentclass:report", "-V", "fontsize:12pt">>

----------------------------------------------------------------------------
(* The specification of the search path: hints of both kinds, one of them  *)
(* a directory of the inherited PATH and one given twice, in plain and in  *)
(* filtered runs.                                                          *)

HintSamples == {"/opt/bin", "/usr/bin"}

NextPath ==
    \/ \E path \in HintSamples : add_latex_path_hint(path)
    \/ \E path \in HintSamples \cup {"/opt/pandoc"} : add_pandoc_path_hint(path)
    \/ add_input("cake")
    \/ set_output(OutPipe)
    \/ add_filter("identity")
    \/ execute
    \/ run
    \/ CannedChild
    \/ apply_filter

SpecPath == Init /\ [][NextPath]_vars

(* The directories of the search path, in the order claimed.               *)
PathElements ==
    orig.latex_path_hint \o orig.pandoc_path_hint \o os_specific_paths
    \o LATEX_PATH \o <<EnvPATH>>

(* elems[1..n] with the delimiter between each two.                        *)
RECURSIVE Delimited(_, _, _)
Delimited(elems, n, d) ==
    IF n = 0 THEN ""
    ELSE IF n = 1 THEN elems[1]
    ELSE Delimited(elems, n - 1, d) \o d \o elems[n]

DocumentedPathElements ==
    orig.latex_path_hint \o orig.pandoc_path_hint \o <<EnvPATH>>
    \o os_specific_paths \o LATEX_PATH

(* C20: as documented on add_latex_path_hint and add_pandoc_path_hint, the *)
(* search path of the child lists the hints first, then the directories of *)
(* the inherited PATH, and only after those the hard-coded locations.      *)
C20_HintsThenPathThenHardCoded ==
    Spawning =>
        cmd.env_PATH =
            << Delimited(DocumentedPathElements, Len(DocumentedPathElements),
                         ":") >>

----------------------------------------------------------------------------
(* The specification of rendering: one option of every variant, with empty *)
(* and non-empty payloads and the extremes of the integers, given once or  *)
(* twice, on the run of a file-to-file conversion.                         *)

(* The largest integer of the model (i32::MAX), and i32::MIN.              *)
IntMax == 2147483647

IntMin == (-2147483647) - 1

PathSamples == {"", "ref.docx"}

StringSamples == {"", "cake"}

OptionalSamples == {<<>>, <<"">>, <<"https://cdn/x.js">>}

RenderSamples ==
    {Flag(t) : t \in DOMAIN FlagTokens}
    \cup {WithPath(t, p) : t \in DOMAIN PathPrefix, p \in PathSamples}
    \cup {WithString(t, x) : t \in DOMAIN StringPrefix, x \in StringSamples}
    \cup {WithNumber(t, n) : t \in DOMAIN NumberPrefix, n \in {0, 1, IntMax}}
    \cup {WithNumber("ShiftHeadingLevelBy", n) : n \in {-1, IntMin}}
    \cup {WithUrl(t, u) : t \in DOMAIN UrlPrefix, u \in OptionalSamples}
    \cup {WithChoice("TrackChanges", v) : v \in DOMAIN TrackChangesNames}
    \cup {WithChoice("EmailObfuscation", v) : v \in DOMAIN EmailObfuscationNames}
    \cup {KeyValue(t, k, v) : t \in {"Meta", "Var"}, k \in StringSamples,
                              v \in {<<>>, <<"">>, <<"x">>}}
    \cup {TopLevelDivision(t) : t \in DOMAIN TldTokens}
    \cup {NumberOffset(nums) :
            nums \in {<<>>, <<0>>, <<1, 2>>, <<IntMax, 0, 3>>}}
    \cup {ResourcePath(paths) :
            paths \in {<<>>, <<"">>, <<".">>, <<".", "img">>, <<"a", "", "b">>}}
    \cup {RuntimeSystem(rts) :
            rts \in {<<>>, <<MaximumHeapMemory("1G")>>,
                     <<MaximumHeapMemory(""), MaximumHeapMemory("2G")>>}}

NextRender ==
    \/ add_input("cake")
    \/ set_output(OutFile("lie"))
    \/ \E option \in RenderSamples :
          /\ pandoc.options \in {<<>>, <<option>>}
          /\ add_option(option)
    \/ execute
    \/ run
    \/ spawn("ok")
    \/ wait_with_output("ok", <<0>>, <<>>, <<>>)

SpecRender == Init /\ [][NextRender]_vars

(* The options portion of the arguments of the invocation in progress.     *)
OptionPortion ==
    SubSeq(cmd.args,
           Len(FormatGroup \o RawGroup \o InputGroup \o SinkGroup \o ToGroup) + 1,
           Len(cmd.args))

(* The invocation in progress has the one option with this tag.            *)
Rendering1(tag) ==
    Spawning /\ Len(Self.options) = 1 /\ Self.options[1].tag = tag

(* C12, as claimed: the two renamed options render to the current flag     *)
(* spelling: ReferenceDocx(p) to --reference-doc=p and BaseHeaderLevel(n)  *)
(* to the heading-level flag --shift-heading-level-by, never to            *)
(* --reference-docx or --base-header-level.                                *)
C12_CurrentSpelling ==
    /\ Rendering1("ReferenceDocx") =>
          OptionPortion = <<"--reference-doc=" \o Self.options[1].s>>
    /\ Rendering1("BaseHeaderLevel") =>
          OptionPortion \in
             { <<"--shift-heading-level-by=" \o ToString(m)>> :
                  m \in {Self.options[1].n, Self.options[1].n - 1} }

(* C12, amended: the two renamed options remain constructible and render   *)
(* to their historical spelling, ReferenceDocx(p) to --reference-docx=p    *)
(* and BaseHeaderLevel(n) to --base-header-level=n; the current spelling   *)
(* is rendered by the variants that replace them, ReferenceDoc(p) to       *)
(* --reference-doc=p and ShiftHeadingLevelBy(n) to                         *)
(* --shift-heading-level-by=n.                                             *)
C12_HistoricalSpelling ==
    /\ Rendering1("ReferenceDocx") =>
          OptionPortion = <<"--reference-docx=" \o Self.options[1].s>>
    /\ Rendering1("ReferenceDoc") =>
          OptionPortion = <<"--reference-doc=" \o Self.options[1].s>>
    /\ Rendering1("BaseHeaderLevel") =>
          OptionPortion = <<"--base-header-level=" \o ToString(Self.options[1].n)>>
    /\ Rendering1("ShiftHeadingLevelBy") =>
          OptionPortion =
             <<"--shift-heading-level-by=" \o ToString(Self.options[1].n)>>

C12_Witness ==
    /\ pc = "spawn"
    /\ pandoc.options = <<WithNumber("BaseHeaderLevel", 1)>>
    /\ cmd.args = <<"cake", "-o", "lie", "--base-header-level=1">>

C12_WitnessDocx ==
    /\ pc = "spawn"
    /\ pandoc.options = <<WithPath("ReferenceDocx", "ref.docx")>>
    /\ cmd.args = <<"cake", "-o", "lie", "--reference-docx=ref.docx">>

(* The number of tokens of an option, by the shape of its variant.         *)
TokenCount(option) ==
    IF option.tag \in {"Meta", "Var"} THEN 2
    ELSE IF option.tag = "RuntimeSystem" THEN 2 + Len(option.rts)
    ELSE 1

C16_WitnessEmpty ==
    /\ pc = "spawn"
    /\ orig.options = <<KeyValue("Meta", "", <<>>), KeyValue("Meta", "", <<>>)>>
    /\ OptionPortion = <<"-M", "", "-M", "">>

(* The decimal renderings of nums, in order.                               *)
Decimals(nums) == [i \in DOMAIN nums |-> ToString(nums[i])]

(* C17: a multi-value option renders to one token, its elements joined in  *)
(* list order: NumberOffset to --number-offset= and the numbers with ", "  *)
(* between each two (nothing before the first or after the last, nothing   *)
(* at all for the empty list), ResourcePath to --resource-path= and the    *)
(* paths with the platform delimiter (":") between each two.               *)
C17_MultiValueJoin ==
    /\ Rendering1("NumberOffset") =>
          OptionPortion =
             << "--number-offset="
                \o Delimited(Decimals(Self.options[1].nums),
                             Len(Self.options[1].nums), ", ") >>
    /\ Rendering1("ResourcePath") =>
          OptionPortion =
             << "--resource-path="
                \o Delimited(Self.options[1].paths,
                             Len(Self.options[1].paths), ":") >>

C17_Witness ==
    /\ pc = "spawn"
    /\ orig.options = <<NumberOffset(<<IntMax, 0, 3>>)>>
    /\ OptionPortion = <<"--number-offset=2147483647, 0, 3">>

C17_WitnessPaths ==
    /\ pc = "spawn"
    /\ orig.options = <<ResourcePath(<<"a", "", "b">>)>>
    /\ OptionPortion = <<"--resource-path=a::b">>

PreExits == {i \in Events("exit") : log[i].who = "pre"}

(* C13: when the child of the pre-pass exits with success and the bytes    *)
(* captured from its stdout are not UTF-8, execute does not abort: it      *)
(* returns BadUtf8Conversion(n), n the number of valid leading bytes, as   *)
(* it does for the output of the final invocation.                         *)
C13_PrePassBadUtf8Reported ==
    \A i \in PreExits :
        (log[i].status = <<0>> /\ ~IsText(log[i].stdout)) =>
            /\ pc # "panicked"
            /\ Returned
            /\ result = Err(BadUtf8Conversion(ValidLeading(log[i].stdout)))

(* The children of the invocations that have come to their end: all of    *)
(* them but the last while the last invocation is between spawn and wait.  *)
Finished ==
    IF Spawning THEN SubSeq(children, 1, Len(children) - 1) ELSE children

(* C14: every invocation that spawns spawns one child, and it comes to     *)
(* its end, with a success or with an error, only after that child has     *)
(* exited and its handle and pipes are reclaimed: no invocation leaves a   *)
(* child that was not waited for, or a pipe to it open.                    *)
C14_ChildReclaimed ==
    /\ Len(children) = Cardinality({i \in Events("spawn") : log[i].ok})
    /\ \A i \in DOMAIN Finished :
          /\ Finished[i].handle = "waited"
          /\ Finished[i].stdin \in {"none", "closed"}
          /\ \E j \in Events("exit") : log[j].who = Finished[i].who

(* The spawns of the final invocation.                                     *)
FinalSpawns == {i \in Events("spawn") : log[i].who = "final"}

(* The arguments of the run of the configuration without its filters.      *)
Unfiltered == RunCommand([orig EXCEPT !.filters = <<>>]).cmd.args

(* C15: when every registered filter (one or more) is the identity, the    *)
(* payload piped to the final invocation is the captured output of the     *)
(* pre-pass, byte for byte, and the arguments of the final invocation are  *)
(* those of the same configuration run without filters, but for the input  *)
(* format (-f json) and the input paths (none): the raw args, the sink,    *)
(* the output format and the options are the same tokens in the same       *)
(* places.                                                                 *)
C15_IdentityFilters ==
    (/\ Executing
     /\ orig.filters # <<>>
     /\ \A k \in DOMAIN orig.filters : orig.filters[k] = "identity") =>
        \A i \in FinalSpawns :
            /\ log[i].stdin = "piped"
            /\ \E j \in PreExits : j < i /\ log[i].input = log[j].stdout
            /\ Cardinality(PreExits) = 1
            /\ LET f == Len(InputFormatArgs(orig))
                   r == Len(RawArgs(orig.args))
                   n == Len(InputArgs(orig.input))
               IN  /\ SubSeq(log[i].args, 1, 2) = <<"-f", "json">>
                   /\ Len(log[i].args) = 2 + Len(Unfiltered) - f - n
                   /\ SubSeq(log[i].args, 3, 2 + r) =
                         SubSeq(Unfiltered, f + 1, f + r)
                   /\ SubSeq(log[i].args, 3 + r, Len(log[i].args)) =
                         SubSeq(Unfiltered, f + r + n + 1, Len(Unfiltered))
                   /\ SubSeq(log[i].args, 3, Len(log[i].args)) =
                         RawArgs(orig.args)
                         \o OutputArgs(orig.output, orig.output_format)
                         \o OutputFormatArgs(orig).s
                         \o OptionArgs(orig.options)

C15_Witness ==
    /\ pc = "write"
    /\ who = "final"
    /\ orig.filters = <<"identity", "identity">>
    /\ orig.input = Files(<<"cake">>)
    /\ input = <<91, 93>>
    /\ cmd.args = <<"-f", "json", "--toc-depth=2", "-o", "lie", "-t",
                    "html+smart", "--strict">>

(* The set_doc_class calls behind the options of the run: their places in  *)
(* the option list.                                                        *)
DocClassCalls ==
    {i \in DOMAIN orig.options :
        orig.options[i].tag = "Var" /\ orig.options[i].k = "documentclass"}

(* The documentclass variables among the arguments: their places.          *)
DocClassTokens ==
    {i \in DOMAIN cmd.args :
        \E class \in DOMAIN DocumentClassNames :
            cmd.args[i] = "documentclass:" \o DocumentClassNames[class]}

(* C19: set_doc_class sets or overwrites the document class: a run after   *)
(* one or more set_doc_class calls carries exactly one documentclass       *)
(* variable among its arguments, and it names the class of the last call.  *)
C19_DocClassOverwritten ==
    (Spawning /\ DocClassCalls # {}) =>
        LET last == CHOOSE i \in DocClassCalls : \A j \in DocClassCalls : j <= i
        IN  /\ Cardinality(DocClassTokens) = 1
            /\ \A i \in DocClassTokens :
                  /\ cmd.args[i] = "documentclass:" \o orig.options[last].v[1]
                  /\ i > 1
                  /\ cmd.args[i - 1] = "-V"

----------------------------------------------------------------------------
(* The specification of the template dump: a builder with or without an    *)
(* input, a sink and an output format, then generate_latex_template.       *)

NextTemplate ==
    \/ add_input("cake")
    \/ set_input(Pipe(<<35>>))
    \/ \E output \in {OutFile("lie"), OutPipe} : set_output(output)
    \/ \E format \in {SomeFormat(Fmt("Latex"), <<>>),
                      SomeFormat(Fmt("Html"), <<Fmt("Smart")>>)} :
          set_output_format(format.format, format.extensions)
    \/ arg("toc-depth", "2")
    \/ \E filename \in {"template.tex", ""} : generate_latex_template(filename)
    \/ run
    \/ Child
    \/ \E res \in {"ok"} \cup FileErrors : write_template(res)

SpecTemplate == Init /\ [][NextTemplate]_vars

(* C18: on a configuration with an output format,                          *)
(* generate_latex_template(filename) does not abort while the system calls *)
(* succeed and the child exits with success; it spawns one child, whose    *)
(* arguments carry --print-default-template= and the format with its       *)
(* extensions, and writes what the child wrote to its stdout to filename.  *)
(* It needs nothing but the output format: no input and no sink.           *)
C18_TemplateFromFormatAlone ==
    (/\ call.op.name = "generate_latex_template"
     /\ call.before.output_format # None) =>
        LET token == "--print-default-template="
                     \o OutputFormatArgs(call.before).s[2]
        IN  /\ pc = "panicked" =>
                  \/ Events("io_error") # {}
                  \/ \E i \in Events("exit") : log[i].status # <<0>>
            /\ Spawning => Contains(cmd.args, <<token>>)
            /\ Returned =>
                  /\ Cardinality(Events("spawn")) = 1
                  /\ \E i \in Events("exit"), j \in Events("file") :
                        /\ log[j].path = call.op.filename
                        /\ log[j].bytes = log[i].stdout

(* The template dump at work: with a sink that captures and an input.      *)
C18_Dumped ==
    /\ Returned
    /\ orig.output = OutPipe
    /\ orig.output_format = SomeFormat(Fmt("Latex"), <<>>)
    /\ \E j \in Events("file") :
          log[j].path = "template.tex" /\ log[j].bytes = <<65>>
    /\ \E i \in Events("spawn") :
          log[i].args = <<"--print-default-template=latex", "cake", "-t", "latex">>

----------------------------------------------------------------------------
(* The specification of the pre-pass: every part of the configuration that *)
(* preprocess copies, moves or leaves, on a builder with filters.          *)

NextPre ==
    \/ \E extensions \in SeqsUpTo({Fmt("Smart")}, MaxExtensions) :
          set_input_format(Fmt("Markdown"), extensions)
    \/ arg("toc-depth", "2")
    \/ add_input("cake")
    \/ set_input(Pipe(<<35>>))
    \/ set_output(OutFile("lie"))
    \/ set_output_format(Fmt("Html"), <<>>)
    \/ add_option(Flag("Strict"))
    \/ pandoc.latex_path_hint = <<>> /\ add_latex_path_hint("/opt/tex")
    \/ pandoc.pandoc_path_hint = <<>> /\ add_pandoc_path_hint("/opt/pandoc")
    \/ set_show_cmdline(TRUE)
    \/ add_filter("identity")
    \/ execute
    \/ run
    \/ CannedChild
    \/ apply_filter

SpecPre == Init /\ [][NextPre]_vars

PreSpawns == {i \in Events("spawn") : log[i].who = "pre"}

(* C21: the pre-pass is built from the input of the original (moved out of *)
(* it), its input format with the extensions (no -f when none was set),    *)
(* both lists of path hints and the show-command-line flag; its sink is    *)
(* the pipe and its output format json without extensions.  It has none of *)
(* the options and none of the raw args: its arguments are -f (if set),    *)
(* the input paths and -t json, while the final invocation has the raw     *)
(* args and the options, each once.                                        *)
C21_PrePassParts ==
    /\ who = "pre" =>
          /\ pre.input = orig.input
          /\ pandoc.input = None
          /\ pre.input_format = orig.input_format
          /\ pre.latex_path_hint = orig.latex_path_hint
          /\ pre.pandoc_path_hint = orig.pandoc_path_hint
          /\ pre.print_pandoc_cmdline = orig.print_pandoc_cmdline
          /\ pre.output = OutPipe
          /\ pre.output_format = SomeFormat(Fmt("Json"), <<>>)
          /\ pre.options = <<>>
          /\ pre.args = <<>>
          /\ pre.filters = <<>>
          /\ Spawning =>
                /\ cmd.stdout = "piped"
                /\ cmd.stdin = IF orig.input.kind = "Pipe" THEN "piped"
                               ELSE "inherit"
                /\ input = IF orig.input.kind = "Pipe" THEN orig.input.text
                           ELSE <<>>
                /\ cmd.env_PATH =
                      <<Delimited(PathElements, Len(PathElements), ":")>>
                /\ printed = IF orig.print_pandoc_cmdline THEN <<cmd.args>>
                             ELSE <<>>
    /\ \A i \in PreSpawns :
          log[i].args = InputFormatArgs(orig) \o InputArgs(orig.input)
                        \o <<"-t", "json">>
    /\ (Executing /\ orig.filters # <<>>) =>
          \A i \in FinalSpawns :
              log[i].args = <<"-f", "json">> \o RawArgs(orig.args)
                            \o OutputArgs(orig.output, orig.output_format)
                            \o OutputFormatArgs(orig).s
                            \o Rendering(orig.options)

C21_Witness ==
    /\ pc = "spawn"
    /\ who = "final"
    /\ orig.print_pandoc_cmdline
    /\ orig.latex_path_hint = <<"/opt/tex">>
    /\ orig.pandoc_path_hint = <<"/opt/pandoc">>
    /\ orig.args # <<>>
    /\ orig.filters # <<>>
    /\ Len(log) >= 1
    /\ log[1].ev = "spawn"
    /\ log[1].who = "pre"
    /\ log[1].args = <<"-f", "markdown+smart", "cake", "-t", "json">>
    /\ cmd.args = <<"-f", "json", "--toc-depth=2", "-o", "lie", "-t", "html",
                    "--strict", "--strict">>
    /\ printed = << <<"-f", "markdown+smart", "cake", "-t", "json">>, cmd.args >>

(* The failures of the pre-pass in the history: a system call that failed  *)
(* or a child that exited without success.                                 *)
PreFailures ==
    {i \in DOMAIN log :
        /\ log[i].ev \in {"io_error", "exit"}
        /\ log[i].who = "pre"
        /\ log[i].ev = "exit" => log[i].status # <<0>>}

(* C22: when the pre-pass fails (no input, spawn, write to stdin or wait   *)
(* failing, or the child exiting without success) execute returns that     *)
(* error at once: the failure is the last event, no filter is called, no   *)
(* final invocation is spawned, and the pre-pass is not spawned again.     *)
C22_PrePassFailure ==
    /\ \A i \in PreFailures :
          /\ i = Len(log)
          /\ Returned
          /\ result =
                Err(IF log[i].ev = "exit"
                    THEN ErrOutput([ status |-> log[i].status,
                                     stdout |-> log[i].stdout,
                                     stderr |-> log[i].stderr ])
                    ELSE IF log[i].call = "spawn" /\ log[i].kind = "NotFound"
                    THEN ErrKind("PandocNotFound")
                    ELSE IoErr(log[i].kind))
          /\ Events("filter") = {}
          /\ FinalSpawns = {}
          /\ Cardinality(PreSpawns) = 1
          /\ Len(children) <= 1
    /\ (Executing /\ orig.filters # <<>> /\ orig.input = None) =>
          \/ pc = "run" /\ who = "pre" /\ log = <<>>
          \/ /\ Returned
             /\ result = Err(ErrKind("NoInputSpecified"))
             /\ log = <<>>
             /\ children = <<>>

C22_Witness ==
    /\ Returned
    /\ orig.filters = <<"append", "identity">>
    /\ Len(log) = 2
    /\ log[2].ev = "exit"
    /\ log[2].status = <<1>>
    /\ result.tag = "Err"
    /\ result.err.kind = "Err"
    /\ result.err.output.stderr = <<69>>

C22_WitnessNoInput ==
    /\ Returned
    /\ orig.filters # <<>>
    /\ orig.input = None
    /\ orig.output = OutPipe
    /\ result = Err(ErrKind("NoInputSpecified"))

C22_WitnessWrite ==
    /\ Returned
    /\ orig.filters # <<>>
    /\ Len(log) = 2
    /\ log[2].ev = "io_error"
    /\ log[2].call = "write_all"
    /\ result = Err(IoErr("BrokenPipe"))

----------------------------------------------------------------------------
(* The engine and a streaming child, system call by system call.  A child  *)
(* record has, besides its handle: pipe_in, the bytes in the pipe to its   *)
(* stdin; pipe_out, the bytes in the pipe from its stdout; pending, the    *)
(* output the child has produced and not yet written; drained, what the    *)
(* engine has read from the child's stdout; exited.                        *)

(* The number of bytes a pipe holds.                                       *)
PipeCapacity == 1

(* The longest payload.                                                    *)
MaxPayload == 4

(* The bytes of the payload the engine has written so far.                 *)
Sent(c) == c.received \o c.pipe_in

(* One write of the loop of stdin.write_all(input.as_bytes()): it blocks   *)
(* while the pipe is full, and write_all returns after the last byte (on   *)
(* an empty payload, at once).                                             *)
write ==
    /\ pc = "write"
    /\ LET c == LastChild
           n == Len(Sent(c))
       IN  IF n = Len(input)
           THEN /\ pc' = "wait"
                /\ UNCHANGED children
           ELSE /\ Len(c.pipe_in) < PipeCapacity
                /\ children' =
                      SetLastChild([c EXCEPT !.pipe_in = Append(@, input[n + 1])])
                /\ pc' = IF n + 1 = Len(input) THEN "wait" ELSE "write"
    /\ UNCHANGED <<pandoc, pre, who, cmd, input, fold_rest, acc, result,
                   printed, log, orig, call>>

(* child.wait_with_output() begins with drop(self.stdin.take()).           *)
close_stdin ==
    /\ pc = "wait"
    /\ LastChild.stdin = "open"
    /\ children' = SetLastChild([LastChild EXCEPT !.stdin = "closed"])
    /\ UNCHANGED <<pandoc, pre, pc, who, cmd, input, fold_rest, acc, result,
                   printed, log, orig, call>>

(* wait_with_output reads the child's stdout to its end.                   *)
read_output ==
    /\ pc = "wait"
    /\ LastChild.stdin # "open"
    /\ LastChild.pipe_out # <<>>
    /\ children' =
          SetLastChild([LastChild EXCEPT !.drained = Append(@, Head(LastChild.pipe_out)),
                                         !.pipe_out = Tail(@)])
    /\ UNCHANGED <<pandoc, pre, pc, who, cmd, input, fold_rest, acc, result,
                   printed, log, orig, call>>

(* The end of wait_with_output: stdout is at its end (the child has exited *)
(* and its pipe is empty), the child is waited for, run and execute        *)
(* return.                                                                 *)
wait ==
    /\ pc = "wait"
    /\ LastChild.stdin # "open"
    /\ LastChild.exited
    /\ LastChild.pipe_out = <<>>
    /\ wait_with_output("ok", <<0>>, LastChild.drained, <<>>)

(* The child is running: spawned and not waited for.                       *)
Running ==
    /\ pc \in {"write", "wait"}
    /\ children # <<>>
    /\ LastChild.handle = "held"
    /\ ~LastChild.exited

(* The child reads a byte of its stdin, when it has written the output of  *)
(* the byte before; its output is the byte it read.                        *)
child_read ==
    /\ Running
    /\ LastChild.pending = <<>>
    /\ LastChild.pipe_in # <<>>
    /\ children' =
          SetLastChild([LastChild EXCEPT !.received = Append(@, Head(LastChild.pipe_in)),
                                         !.pending = <<Head(LastChild.pipe_in)>>,
                                         !.pipe_in = Tail(@)])
    /\ UNCHANGED <<pandoc, pre, pc, who, cmd, input, fold_rest, acc, result,
                   printed, log, orig, call>>

(* The child writes a byte of its output: to the pipe when its stdout is   *)
(* one, which blocks while the pipe is full, or to the inherited stdout.   *)
child_write ==
    /\ Running
    /\ LastChild.pending # <<>>
    /\ cmd.stdout = "piped" => Len(LastChild.pipe_out) < PipeCapacity
    /\ children' =
          SetLastChild([LastChild EXCEPT
              !.pipe_out = IF cmd.stdout = "piped"
                           THEN Append(@, Head(LastChild.pending)) ELSE @,
              !.pending = Tail(@)])
    /\ UNCHANGED <<pandoc, pre, pc, who, cmd, input, fold_rest, acc, result,
                   printed, log, orig, call>>

(* The child exits at the end of its input, its output written.            *)
child_exit ==
    /\ Running
    /\ LastChild.stdin # "open"
    /\ LastChild.pipe_in = <<>>
    /\ LastChild.pending = <<>>
    /\ children' = SetLastChild([LastChild EXCEPT !.exited = TRUE])
    /\ UNCHANGED <<pandoc, pre, pc, who, cmd, input, fold_rest, acc, result,
                   printed, log, orig, call>>

NextStream ==
    \/ \E filename \in {"cake", "lie.md"} : add_input(filename)
    \/ \E text \in SeqsUpTo({35}, MaxPayload) : set_input(Pipe(text))
    \/ \E output \in {OutFile("lie"), OutPipe} : set_output(output)
    \/ execute
    \/ run
    \/ spawn("ok")
    \/ write
    \/ close_stdin
    \/ read_output
    \/ wait
    \/ child_read
    \/ child_write
    \/ child_exit

SpecStream == Init /\ [][NextStream]_vars

(* The engine and the child each take the step they can take.              *)
SpecStreamLive == SpecStream /\ WF_vars(NextStream)

(* C23: how the input is delivered depends on its kind alone.  File        *)
(* input: the paths are positional arguments in the order of the list, the *)
(* child's stdin is not a pipe and nothing is written to it.  A payload:   *)
(* no positional argument, the child's stdin is a pipe, what has been      *)
(* written is a prefix of the payload at every moment and all of it when   *)
(* write_all has returned, and the pipe is closed before the engine reads  *)
(* the child's output or waits for it.                                     *)
C23_InputDelivery ==
    (Executing /\ pc # "run" /\ CheckSpecified(orig) = None) =>
        IF orig.input.kind = "Files"
        THEN /\ cmd.args = orig.input.files
                           \o OutputArgs(orig.output, orig.output_format)
             /\ cmd.stdin = "inherit"
             /\ input = <<>>
             /\ pc # "write"
             /\ \A i \in DOMAIN children :
                   /\ children[i].stdin = "none"
                   /\ Sent(children[i]) = <<>>
        ELSE /\ cmd.args = OutputArgs(orig.output, orig.output_format)
             /\ cmd.stdin = "piped"
             /\ input = orig.input.text
             /\ \A i \in DOMAIN children :
                   LET c == children[i]
                   IN  /\ c.stdin \in {"open", "closed"}
                       /\ IsPrefix(Sent(c), orig.input.text)
                       /\ pc # "write" => Sent(c) = orig.input.text
                       /\ pc = "write" => c.stdin = "open"
                       /\ c.stdin = "closed" => Sent(c) = orig.input.text
                       /\ (c.drained # <<>> \/ c.exited \/ c.handle = "waited")
                             => c.stdin = "closed"
                       /\ Returned => c.received = orig.input.text

C23_Witness ==
    /\ pc = "wait"
    /\ orig.input = Pipe(<<35, 35, 35>>)
    /\ LastChild.stdin = "closed"
    /\ LastChild.received = <<35, 35>>
    /\ LastChild.pipe_in = <<35>>
    /\ LastChild.drained = <<35>>

C23_WitnessFiles ==
    /\ Returned
    /\ orig.input = Files(<<"lie.md", "cake">>)
    /\ cmd.args = <<"lie.md", "cake", "-o", "lie">>
    /\ result = Ok([kind |-> "ToFile", path |-> "lie"])
    /\ LastChild.handle = "waited"

(* C24: with a payload for input and the child's stdout and stderr         *)
(* captured, execute returns in the end, whatever the length of the        *)
(* payload, when the child reads its stdin while there is data, writes its *)
(* output while the pipe has room and exits at the end of its input.       *)
C24_EventuallyReturns ==
    (pc = "write" /\ cmd.stdout = "piped" /\ cmd.stderr = "piped") ~> Returned

(* The engine and the child both blocked: the engine in write_all, the     *)
(* pipe to the child full, and the child in its write, the pipe from it    *)
(* full.                                                                   *)
C24_Blocked ==
    /\ pc = "write"
    /\ Len(LastChild.pipe_in) = PipeCapacity
    /\ LastChild.pending # <<>>
    /\ Len(LastChild.pipe_out) = PipeCapacity
    /\ ~ENABLED NextStream

----------------------------------------------------------------------------
(* The specification of the formats: every InputFormat and OutputFormat    *)
(* value, with and without extensions, on a builder with an input and a    *)
(* sink; then execute or generate_latex_template.                          *)

NextFormats ==
    \/ /\ pandoc.input_format = None
       /\ \/ \E format \in {Fmt(t) : t \in DOMAIN InputFormatNames}
                           \cup {FmtOther("gfm"), FmtOther("")} :
                set_input_format(format, <<>>)
          \/ \E extension \in {Fmt(t) : t \in DOMAIN MarkdownExtensionNames}
                              \cup {FmtOther("emoji")} :
                set_input_format(Fmt("Markdown"), <<Fmt("Smart"), extension>>)
    \/ /\ pandoc.output_format = None
       /\ \/ \E format \in {Fmt(t) : t \in DOMAIN OutputFormatNames}
                           \cup {FmtOther("typst"), FmtLua("writer.lua")} :
                set_output_format(format, <<>>)
          \/ set_output_format(Fmt("Html"), <<Fmt("Smart"), FmtOther("emoji")>>)
    \/ pandoc.input = None /\ add_input("cake")
    \/ \E output \in {OutFile("lie"), OutPipe} : set_output(output)
    \/ execute
    \/ generate_latex_template("template.tex")
    \/ run
    \/ spawn("ok")
    \/ wait_with_output("ok", <<0>>, <<>>, <<>>)
    \/ write_template("ok")

SpecFormats == Init /\ [][NextFormats]_vars

(* C25: rendering a format never aborts: on a configuration with an input  *)
(* and a sink, whatever its input format, output format and extensions     *)
(* (Other(s) and Lua(path) among them), execute and                        *)
(* generate_latex_template build the -f and -t tokens and reach the spawn. *)
C25_FormatRenderingTotal ==
    (/\ who # "none" \/ call.op.name = "generate_latex_template"
     /\ orig.output_format # None
     /\ CheckSpecified(orig) = None
     /\ pc # "run") =>
        /\ pc # "panicked"
        /\ Events("spawn") # {} \/ pc = "spawn"
        /\ \E i \in DOMAIN cmd.args : cmd.args[i] = "-t"

(* The escape hatch Other(s) at work: s is rendered unchanged.             *)
C25_OtherRendered ==
    /\ pc = "spawn"
    /\ orig.input_format =
          SomeFormat(Fmt("Markdown"), <<Fmt("Smart"), FmtOther("emoji")>>)
    /\ orig.output_format = SomeFormat(FmtOther("typst"), <<>>)
    /\ cmd.args = << "-f", "markdown+smart+emoji", "cake", "-o", "lie", "-t",
                     "typst" >>

====
